---- MODULE Spec2Model ----
(***************************************************************************)
(* The content-moderation filter of bord (wasm-filter): the proxy handler, *)
(* its two policy gates, the tokenizer with its lazily initialised         *)
(* vocabulary, and the local-model inference chain.                        *)
(*                                                                         *)
(* Text is a sequence of characters, a character being a one-character     *)
(* string.  Logits are f32 values that are multiples of 1/8, written as    *)
(* the integer number of eighths.  A sentiment score is written in units   *)
(* of 10^-9, rounded up, so that 0 stands for the float 0.0 alone and      *)
(* 10^9 for the float 1.0 alone.                                           *)
(***************************************************************************)
EXTENDS Integers, Sequences, FiniteSets, TLC

VARIABLES
    vocabData,      \* the embedded resource models/vocab.txt, as its lines
    VOCAB,          \* static VOCAB: OnceLock<Tokenizer>
    model,          \* the embedded resource models/model.onnx, as what it computes
    FORBIDDEN_WORDS, \* the environment variable FORBIDDEN_WORDS
    config,         \* static CONFIG, the parsed config.toml
    pc,             \* per thread: where its call of handle stands
    req,            \* per thread: the incoming request
    content,        \* per thread: the content extracted from the body
    cls,            \* per thread: the ContentClassification obtained
    resp,           \* per thread: what handle returned
    sent,           \* per thread: the requests sent to the upstream origin
    trace,          \* per thread: the calls made and lines logged, in order
    loadRuns,       \* how often the vocabulary resource was parsed
    parseRuns,      \* how often the model bytes were parsed
    handled,        \* requests completed by the process
    tokPc,          \* where the tokenizer's lone caller stands
    tokText,        \* the text handed to Tokenizer::tokenize
    tokOut,         \* the Vec<i64> tokenize returned
    tokMask,        \* the attention mask classify_sentiment built from it
    store,          \* the backend's key-value store: key -> JSON value
    now,            \* the backend's clock, in half hours
    uuids,          \* how many UUIDs Uuid::new_v4 has handed out
    BORD_TOKEN_EXPIRATION_HOURS,  \* the environment variable of that name
    call,           \* the request the backend handled last
    reply,          \* the response to it
    storeBefore,    \* the store when that request arrived
    issued,         \* what the clients hold: per token a login returned, the
                    \* username presented and the user id returned with it
    lastFollow,     \* per pair of users: the last follow or unfollow request
                    \* of the first about the second that was answered 200
    inflight        \* per concurrent create_user request: where it stands and
                    \* its local variables

staticVars == <<vocabData, model, FORBIDDEN_WORDS, config>>
threadVars == <<pc, req, content, cls, resp, sent, trace>>
tokVars == <<tokPc, tokText, tokOut, tokMask>>
bordVars == <<store, now, uuids, BORD_TOKEN_EXPIRATION_HOURS, call, reply, storeBefore,
              issued, lastFollow, inflight>>
vars == <<vocabData, VOCAB, model, FORBIDDEN_WORDS, config, pc, req, content,
          cls, resp, sent, trace, loadRuns, parseRuns, handled,
          tokPc, tokText, tokOut, tokMask,
          store, now, uuids, BORD_TOKEN_EXPIRATION_HOURS, call, reply, storeBefore,
          issued, lastFollow, inflight>>

-----------------------------------------------------------------------------
(* Bounds of the model *)

NumThreads == 2     \* threads of the process calling handle
MaxRequests == 2    \* requests a process serves one after the other
MaxShort == 3       \* length of the short tokenizer inputs, all enumerated
MaxPrefix == 1      \* free characters at the head of a long tokenizer input
MaxNear == 2        \* how far around MAX_LEN the long inputs reach
MaxUuids == 3       \* UUIDs the backend hands out (users, tokens and posts)
MaxFollowUuids == 4     \* UUIDs handed out where users follow each other
MaxSessionUuids == 5    \* UUIDs handed out where clients hold several tokens or posts
MaxClock == 2       \* half hours the backend's clock advances
MaxConcurrent == 2  \* create_user requests the backend runs at the same time

-----------------------------------------------------------------------------
(* Characters and strings *)

IsWhitespace(ch) == ch \in {" ", "\t", "\n"}

UpperCase == "A" :> "a" @@ "B" :> "b" @@ "C" :> "c" @@ "K" :> "k" @@
             "L" :> "l" @@ "M" :> "m" @@ "P" :> "p" @@ "S" :> "s" @@
             "U" :> "u" @@ "N" :> "n" @@ "D" :> "d" @@ "E" :> "e"

LowerChar(ch) == IF ch \in DOMAIN UpperCase THEN UpperCase[ch] ELSE ch

to_lowercase(s) == [i \in 1..Len(s) |-> LowerChar(s[i])]

RECURSIVE TrimStart(_)
TrimStart(s) ==
    IF s # <<>> /\ IsWhitespace(Head(s)) THEN TrimStart(Tail(s)) ELSE s

RECURSIVE TrimEnd(_)
TrimEnd(s) ==
    IF s # <<>> /\ IsWhitespace(s[Len(s)])
    THEN TrimEnd(SubSeq(s, 1, Len(s) - 1))
    ELSE s

trim(s) == TrimEnd(TrimStart(s))

-----------------------------------------------------------------------------
(* tokenizer.rs *)

MAX_LEN == 128
UNK_FALLBACK == 100

CLS == <<"[", "C", "L", "S", "]">>
SEP == <<"[", "S", "E", "P", "]">>
PAD == <<"[", "P", "A", "D", "]">>
UNK == <<"[", "U", "N", "K", "]">>

NotSet == [set |-> FALSE]

Insert(m, k, v) == [x \in DOMAIN m \cup {k} |-> IF x = k THEN v ELSE m[x]]

RECURSIVE InsertLines(_, _, _)
InsertLines(lines, i, vocab) ==
    IF i > Len(lines)
    THEN vocab
    ELSE InsertLines(lines, i + 1, Insert(vocab, trim(lines[i]), i - 1))

\* Tokenizer::load, the work between the check and the set: the vocabulary
\* resource parsed into the token-to-ID map
ParseVocab(data) == InsertLines(data, 1, <<>>)

is_punctuation(ch) == ch \in {",", ".", "!", "?", ";", ":", "\"", "'", "-"}

\* the lookup trying the '#'-prefixed form before the exact one
get_token_id_PrefixedFirst(vocab, token) ==
    IF <<"#">> \o token \in DOMAIN vocab THEN vocab[<<"#">> \o token]
    ELSE IF token \in DOMAIN vocab THEN vocab[token]
    ELSE IF UNK \in DOMAIN vocab THEN vocab[UNK]
    ELSE UNK_FALLBACK

get_token_id(vocab, token) ==
    IF token \in DOMAIN vocab THEN vocab[token]
    ELSE IF <<"#">> \o token \in DOMAIN vocab THEN vocab[<<"#">> \o token]
    ELSE IF UNK \in DOMAIN vocab THEN vocab[UNK]
    ELSE UNK_FALLBACK

\* evaluation order only: v is computed before e is
After(v, e) == IF v = v THEN e ELSE e

\* the round with the punctuation mark dropped instead of emitted as a token
ScanStep_DropPunctuation(vocab, st, ch) ==
    IF IsWhitespace(ch) \/ is_punctuation(ch)
    THEN [tokens |-> IF st.current_token # <<>>
                     THEN Append(st.tokens, get_token_id(vocab, st.current_token))
                     ELSE st.tokens,
          current_token |-> <<>>]
    ELSE [tokens |-> st.tokens, current_token |-> Append(st.current_token, ch)]

\* one round of the scanning loop of tokenize, on the character ch
ScanStep(vocab, st, ch) ==
    LET flushed == IF st.current_token # <<>>
                   THEN Append(st.tokens, get_token_id(vocab, st.current_token))
                   ELSE st.tokens
    IN  IF IsWhitespace(ch) \/ is_punctuation(ch)
        THEN [tokens |-> IF is_punctuation(ch)
                         THEN Append(flushed, get_token_id(vocab, <<ch>>))
                         ELSE flushed,
              current_token |-> <<>>]
        ELSE [tokens |-> st.tokens, current_token |-> Append(st.current_token, ch)]

\* the rounds for the characters lo..hi of s, in order (the range is halved
\* only to keep the evaluation shallow)
RECURSIVE Scan(_, _, _, _, _)
Scan(vocab, s, lo, hi, st) ==
    IF lo > hi THEN st
    ELSE IF lo = hi THEN ScanStep(vocab, st, s[lo])
    ELSE LET mid == (lo + hi) \div 2
             left == Scan(vocab, s, lo, mid, st)
         IN  After(left, Scan(vocab, s, mid + 1, hi, left))

PadTo(tokens, n, id) ==
    IF Len(tokens) >= n THEN tokens
    ELSE tokens \o [i \in 1..(n - Len(tokens)) |-> id]

\* tokenize without its truncation
Truncate_Missing(tokens, n) == tokens

Truncate(tokens, n) == IF Len(tokens) > n THEN SubSeq(tokens, 1, n) ELSE tokens

tokenize(vocab, text) ==
    LET begun  == IF CLS \in DOMAIN vocab THEN <<vocab[CLS]>> ELSE <<>>
        lower  == to_lowercase(text)
        scan   == Scan(vocab, lower, 1, Len(lower),
                       [tokens |-> begun, current_token |-> <<>>])
        body   == IF scan.current_token # <<>>
                  THEN Append(scan.tokens, get_token_id(vocab, scan.current_token))
                  ELSE scan.tokens
        ended  == IF SEP \in DOMAIN vocab THEN Append(body, vocab[SEP]) ELSE body
        padded == PadTo(ended, MAX_LEN,
                        IF PAD \in DOMAIN vocab THEN vocab[PAD] ELSE 0)
    IN  Truncate(padded, MAX_LEN)

\* models/vocab.txt is not part of the sources: these stand for it
BertVocab     == <<PAD, UNK, CLS, SEP, <<"a">>, <<"#", "b">>, <<".">>>>
ShiftedVocab  == <<CLS, SEP, PAD, UNK, <<"b">>, <<"#", "b">>, <<"a">>>>
BareVocab     == <<<<"a">>, <<".">>, <<" ">> \o CLS \o <<" ">>, SEP>>
NoMarkerVocab == <<PAD, <<"a">>, <<"b">>>>
DupVocab      == <<PAD, UNK, CLS, SEP, <<"a">>, <<"a">>>>

VocabFiles == {BertVocab, ShiftedVocab, BareVocab, NoMarkerVocab, DupVocab}

-----------------------------------------------------------------------------
(* tract_model.rs *)

\* sigmoid on the f32 x/8, computed in f32 and widened to f64, in units of
\* 10^-9 rounded up: exp overflows below x = -88.7 and the result is the float
\* 0.0; from x = 17 on, 1 + exp(-x) rounds to 1 and the result is the float 1.0
SigmoidTable ==
    -1600 :> 0 @@
    -704 :> 1 @@
    -136 :> 42 @@
    -128 :> 113 @@
    -32 :> 17986211 @@
    -24 :> 47425874 @@
    -16 :> 119202920 @@
    -9 :> 245085016 @@
    -8 :> 268941433 @@
    -7 :> 294214964 @@
    -6 :> 320821286 @@
    -5 :> 348645121 @@
    0 :> 500000000 @@
    5 :> 651354909 @@
    7 :> 705785037 @@
    8 :> 731058598 @@
    16 :> 880797029 @@
    32 :> 982013762 @@
    128 :> 999999881 @@
    136 :> 1000000000 @@
    1600 :> 1000000000

\* the logit difference, in eighths, returned as it is, not normalised
sigmoid_Identity(x) == x

sigmoid(x) == SigmoidTable[x]

\* 1 for real tokens, 0 for padding
attention_mask(token_ids) ==
    [i \in 1..Len(token_ids) |-> IF token_ids[i] = 0 THEN 0 ELSE 1]

\* models/model.onnx is not part of the sources.  A model is what its bytes
\* make of the two tensors: bytes that do not parse, a graph that fails to
\* run, an output that is not f32, an output of one logit, or two logits
UnparsableModel == [kind |-> "unparsable", neg |-> 0, pos |-> 0]

ErrorModels ==
    {[kind |-> k, neg |-> 0, pos |-> 0] :
        k \in {"unparsable", "run_error", "not_f32", "one_logit"}}

ConstantLogits ==
    {<<16, -16>>, <<0, 0>>, <<7, 0>>, <<5, 0>>, <<-16, 16>>,
     <<800, -800>>, <<-800, 800>>}

\* a model answering the same logits to every input, and one whose negative
\* logit grows by 1.0 with every attended token beyond three
Models ==
    ErrorModels
    \cup {[kind |-> "constant", neg |-> l[1], pos |-> l[2]] : l \in ConstantLogits}
    \cup {[kind |-> "by_length", neg |-> 0, pos |-> 0]}

Attended(mask_array) == Cardinality({i \in 1..Len(mask_array) : mask_array[i] = 1})

ModelRun(m, input_array, mask_array) ==
    CASE m.kind = "constant" -> <<m.neg, m.pos>>
      [] m.kind = "by_length" -> <<8 * (Attended(mask_array) - 3), 0>>
      [] m.kind = "one_logit" -> <<0>>

Ok(v) == [ok |-> TRUE, value |-> v]
Err(e) == [ok |-> FALSE, value |-> e]

\* classify_sentiment, from the tokens on
classify_tokens(m, token_ids) ==
    LET mask == attention_mask(token_ids)
        len == IF Len(token_ids) < MAX_LEN THEN Len(token_ids) ELSE MAX_LEN
        input_array == [i \in 1..MAX_LEN |-> IF i <= len THEN token_ids[i] ELSE 0]
        mask_array == [i \in 1..MAX_LEN |-> IF i <= len THEN mask[i] ELSE 0]
    IN  IF m.kind = "unparsable" THEN Err("model_parse")
        ELSE IF m.kind = "run_error" THEN Err("model_run")
        ELSE IF m.kind = "not_f32" THEN Err("Failed to get logits as f32 slice")
        ELSE LET logits_view == ModelRun(m, input_array, mask_array)
             IN  IF Len(logits_view) < 2
                 THEN Err("Unexpected model output shape: expected at least 2 logits")
                 ELSE Ok(sigmoid(logits_view[2] - logits_view[1]))

-----------------------------------------------------------------------------
(* lib.rs *)

HATE_CUTOFF == 300000000
NEUTRAL_SCORE == 500000000

Threads == 1..NumThreads

None == [some |-> FALSE, value |-> <<>>]
Some(v) == [some |-> TRUE, value |-> v]

NoClassification ==
    [sentiment_score |-> 0, is_hate_speech |-> FALSE, reasoning |-> "none"]

NoResponse == [status |-> 0, from |-> "none", error |-> "", message |-> ""]

NoRequest == [method |-> "", path |-> <<>>, body |-> [kind |-> "none", content |-> <<>>],
              headers |-> {}]

\* classify_with_tract failing closed: an inference error flags the content
tract_classification_FailClosed(result) ==
    IF result.ok
    THEN Ok([sentiment_score |-> result.value,
             is_hate_speech |-> result.value < HATE_CUTOFF,
             reasoning |-> "tract_inference"])
    ELSE Ok([sentiment_score |-> 0,
             is_hate_speech |-> TRUE,
             reasoning |-> "tract_error"])

\* classify_with_tract with the cutoff its comment names, 0.4
tract_classification_CommentCutoff(result) ==
    IF result.ok
    THEN Ok([sentiment_score |-> result.value,
             is_hate_speech |-> result.value < 400000000,
             reasoning |-> "tract_inference"])
    ELSE Ok([sentiment_score |-> NEUTRAL_SCORE,
             is_hate_speech |-> FALSE,
             reasoning |-> "tract_error"])

\* classify_with_tract, on what classify_sentiment returned
tract_classification(result) ==
    IF result.ok
    THEN Ok([sentiment_score |-> result.value,
             is_hate_speech |-> result.value < HATE_CUTOFF,
             reasoning |-> "tract_inference"])
    ELSE Ok([sentiment_score |-> NEUTRAL_SCORE,
             is_hate_speech |-> FALSE,
             reasoning |-> "tract_error"])

\* classify_with_llm flagging the content when the LLM cannot be reached
llm_classification_FailClosed(outcome) ==
    CASE outcome.kind = "send_error" ->
            Ok([sentiment_score |-> 0,
                is_hate_speech |-> TRUE,
                reasoning |-> "llm_unavailable"])
      [] outcome.kind = "bad_response" -> Err("Failed to parse LLM response")
      [] outcome.kind = "bad_json" -> Err("Failed to parse JSON from LLM response")
      [] outcome.kind = "classified" ->
            Ok([sentiment_score |-> outcome.sentiment_score,
                is_hate_speech |-> outcome.has_hate_speech,
                reasoning |-> "llm"])

\* classify_with_llm, on what the call of the LLM brought
llm_classification(outcome) ==
    CASE outcome.kind = "send_error" ->
            Ok([sentiment_score |-> NEUTRAL_SCORE,
                is_hate_speech |-> FALSE,
                reasoning |-> "llm_unavailable"])
      [] outcome.kind = "bad_response" -> Err("Failed to parse LLM response")
      [] outcome.kind = "bad_json" -> Err("Failed to parse JSON from LLM response")
      [] outcome.kind = "classified" ->
            Ok([sentiment_score |-> outcome.sentiment_score,
                is_hate_speech |-> outcome.has_hate_speech,
                reasoning |-> "llm"])

LlmOutcomes ==
    {[kind |-> k, sentiment_score |-> 0, has_hate_speech |-> FALSE] :
        k \in {"send_error", "bad_response", "bad_json"}}
    \cup {[kind |-> "classified", sentiment_score |-> sc, has_hate_speech |-> h] :
            sc \in {350000000, 900000000}, h \in BOOLEAN}

RECURSIVE Split(_, _)
Split(s, sep) ==
    LET at == {i \in 1..Len(s) : s[i] = sep}
    IN  IF at = {} THEN <<s>>
        ELSE LET i == CHOOSE j \in at : \A k \in at : j <= k
             IN  <<SubSeq(s, 1, i - 1)>> \o Split(SubSeq(s, i + 1, Len(s)), sep)

Contains(hay, needle) ==
    \E i \in 1..(Len(hay) - Len(needle) + 1) :
        SubSeq(hay, i, i + Len(needle) - 1) = needle

starts_with(s, prefix) ==
    Len(s) >= Len(prefix) /\ SubSeq(s, 1, Len(prefix)) = prefix

SPAM_MESSAGE == "Spam detected - this content won't be posted."

\* the gate matching the words against the content as written, not lower-cased
contains_forbidden_content_CaseSensitive(env, text) ==
    IF ~env.some THEN None
    ELSE LET words == Split(env.value, ",")
         IN  IF \E k \in 1..Len(words) :
                    LET word == to_lowercase(trim(words[k]))
                    IN  word # <<>> /\ Contains(text, word)
             THEN Some(SPAM_MESSAGE)
             ELSE None

\* the gate without its test for an empty entry
contains_forbidden_content_EmptyMatches(env, text) ==
    IF ~env.some THEN None
    ELSE LET words == Split(env.value, ",")
         IN  IF \E k \in 1..Len(words) :
                    LET word == to_lowercase(trim(words[k]))
                    IN  Contains(to_lowercase(text), word)
             THEN Some(SPAM_MESSAGE)
             ELSE None

contains_forbidden_content(env, text) ==
    IF ~env.some THEN None
    ELSE LET words == Split(env.value, ",")
         IN  IF \E k \in 1..Len(words) :
                    LET word == to_lowercase(trim(words[k]))
                    IN  word # <<>> /\ Contains(to_lowercase(text), word)
             THEN Some(SPAM_MESSAGE)
             ELSE None

\* the error response with the status of a plain bad request
build_error_response_BadRequest(message) ==
    [status |-> 400, from |-> "filter",
     error |-> "content_policy_violation", message |-> message]

build_error_response(message) ==
    [status |-> 422, from |-> "filter",
     error |-> "content_policy_violation", message |-> message]

validate_post_content(body) ==
    IF body.kind = "string" THEN Some(body.content) ELSE None

POSTS == <<"/", "p", "o", "s", "t", "s">>

\* handle running the content policy on every PUT under /posts, /posts itself
\* included
is_moderated_PutPosts(method, path) ==
    \/ method = "POST" /\ starts_with(path, POSTS)
    \/ method = "PUT" /\ starts_with(path, POSTS)

\* the condition of handle for running the content policy on a request
is_moderated(method, path) ==
    \/ method = "POST" /\ starts_with(path, POSTS)
    \/ method = "PUT" /\ starts_with(path, POSTS \o <<"/">>)

\* handle blocking on the threshold as well as on the flag
policy_after_BlockBelowThreshold(result, threshold, message) ==
    IF ~result.ok THEN [block |-> FALSE, message |-> "", log |-> <<"failed">>]
    ELSE IF result.value.is_hate_speech
    THEN [block |-> TRUE, message |-> message, log |-> <<"blocked">>]
    ELSE IF result.value.sentiment_score < threshold
    THEN [block |-> TRUE, message |-> message, log |-> <<"flagged">>]
    ELSE [block |-> FALSE, message |-> "", log |-> <<>>]

\* handle answering a block with the classifier's reasoning as the message
policy_after_LeakReasoning(result, threshold, message) ==
    IF ~result.ok THEN [block |-> FALSE, message |-> "", log |-> <<"failed">>]
    ELSE IF result.value.is_hate_speech
    THEN [block |-> TRUE, message |-> result.value.reasoning, log |-> <<"blocked">>]
    ELSE IF result.value.sentiment_score < threshold
    THEN [block |-> FALSE, message |-> "", log |-> <<"flagged">>]
    ELSE [block |-> FALSE, message |-> "", log |-> <<>>]

\* handle, after a classifier returned: block on the flag, log on the threshold
policy_after(result, threshold, message) ==
    IF ~result.ok THEN [block |-> FALSE, message |-> "", log |-> <<"failed">>]
    ELSE IF result.value.is_hate_speech
    THEN [block |-> TRUE, message |-> message, log |-> <<"blocked">>]
    ELSE IF result.value.sentiment_score < threshold
    THEN [block |-> FALSE, message |-> "", log |-> <<"flagged">>]
    ELSE [block |-> FALSE, message |-> "", log |-> <<>>]

\* a header value is a sequence of bytes: an ASCII byte is written as its
\* character, "0xFF" is the byte 255, which no UTF-8 text contains.
\* String::from_utf8_lossy keeps valid UTF-8 and turns every other byte into
\* the replacement character U+FFFD
from_utf8_lossy(bytes) ==
    [i \in 1..Len(bytes) |-> IF bytes[i] = "0xFF" THEN "U+FFFD" ELSE bytes[i]]

X_ORIGIN == <<"x-origin", <<"w", "a", "s", "m", "-", "f", "i", "l", "t", "e", "r">>>>

\* the request handle builds for the upstream origin
forwarded(r) ==
    [method |-> r.method, path |-> r.path, body |-> r.body,
     headers |-> {<<h[1], from_utf8_lossy(h[2])>> : h \in r.headers}
                 \cup {X_ORIGIN}]

UpstreamOutcomes ==
    {[status |-> 200, from |-> "upstream", error |-> "", message |-> ""],
     [status |-> 422, from |-> "upstream", error |-> "", message |-> ""],
     [status |-> 500, from |-> "send_error", error |-> "", message |-> ""]}

-----------------------------------------------------------------------------
(* handle, as one thread runs it.  A step ends where the thread reads or     *)
(* writes the shared VOCAB cell or waits for the network.                    *)

IdleThreads ==
    /\ pc = [t \in Threads |-> "idle"]
    /\ req = [t \in Threads |-> NoRequest]
    /\ content = [t \in Threads |-> <<>>]
    /\ cls = [t \in Threads |-> NoClassification]
    /\ resp = [t \in Threads |-> NoResponse]
    /\ sent = [t \in Threads |-> <<>>]
    /\ trace = [t \in Threads |-> <<>>]

\* handle after the classifier's result: the block response, or on to forwarding
Decide(t, result, message, calls) ==
    LET d == policy_after(result, config.sentiment_score_threshold, message)
    IN  /\ cls' = [cls EXCEPT ![t] = IF result.ok THEN result.value ELSE NoClassification]
        /\ trace' = [trace EXCEPT ![t] = @ \o calls \o d.log]
        /\ IF d.block
           THEN /\ resp' = [resp EXCEPT ![t] = build_error_response(d.message)]
                /\ pc' = [pc EXCEPT ![t] = "done"]
           ELSE /\ resp' = resp
                /\ pc' = [pc EXCEPT ![t] = "forward"]

\* lines 204-220: the request is read, gate 1 runs, the configuration picks
\* the classifier
HandleStart(t, r) ==
    /\ pc[t] = "idle"
    /\ req' = [req EXCEPT ![t] = r]
    /\ LET c == validate_post_content(r.body)
       IN  IF is_moderated(r.method, r.path) /\ c.some
           THEN LET f == contains_forbidden_content(FORBIDDEN_WORDS, c.value)
                IN  /\ content' = [content EXCEPT ![t] = c.value]
                    /\ IF f.some
                       THEN /\ resp' = [resp EXCEPT ![t] = build_error_response(f.value)]
                            /\ pc' = [pc EXCEPT ![t] = "done"]
                            /\ trace' = [trace EXCEPT ![t] =
                                            <<"contains_forbidden_content">>]
                       ELSE /\ resp' = resp
                            /\ pc' = [pc EXCEPT ![t] =
                                        IF config.enable_llm THEN "llm"
                                        ELSE IF config.enable_tract THEN "tract"
                                        ELSE "forward"]
                            /\ trace' = [trace EXCEPT ![t] =
                                            <<"contains_forbidden_content", "load_config">>]
           ELSE /\ content' = content
                /\ resp' = resp
                /\ pc' = [pc EXCEPT ![t] = "forward"]
                /\ trace' = trace
    /\ UNCHANGED <<staticVars, VOCAB, cls, sent, loadRuns, parseRuns, handled, tokVars,
                   bordVars>>

\* lines 221-237: classify_with_llm and the decision on its result
ClassifyLlm(t) ==
    /\ pc[t] = "llm"
    /\ \E o \in LlmOutcomes :
          Decide(t, llm_classification(o), "Content contains hate speech",
                 <<"classify_with_llm">>)
    /\ UNCHANGED <<staticVars, VOCAB, req, content, sent, loadRuns, parseRuns,
                   handled, tokVars,
                   bordVars>>

\* lines 239 and tokenizer.rs 13-27: classify_with_tract enters
\* classify_sentiment, which enters Tokenizer::load: VOCAB.get(), and the
\* vocabulary parsed when the cell was found empty
TractLoadGet(t) ==
    /\ pc[t] = "tract"
    /\ trace' = [trace EXCEPT ![t] = @ \o <<"classify_with_tract", "Tokenizer::load">>]
    /\ IF VOCAB.set
       THEN /\ pc' = [pc EXCEPT ![t] = "infer"]
            /\ loadRuns' = loadRuns
       ELSE /\ pc' = [pc EXCEPT ![t] = "set"]
            /\ loadRuns' = loadRuns + 1
    /\ UNCHANGED <<staticVars, VOCAB, req, content, cls, resp, sent, parseRuns,
                   handled, tokVars,
                   bordVars>>

\* tokenizer.rs 28-30: VOCAB.set(tokenizer) fails on a cell that is set, and
\* load returns the error; classify_sentiment hands it on with `?`
TractLoadSet(t) ==
    /\ pc[t] = "set"
    /\ IF ~VOCAB.set
       THEN /\ VOCAB' = [set |-> TRUE, vocab |-> ParseVocab(vocabData)]
            /\ pc' = [pc EXCEPT ![t] = "infer"]
            /\ UNCHANGED <<cls, resp, trace>>
       ELSE /\ VOCAB' = VOCAB
            /\ Decide(t, tract_classification(Err("Failed to initialize tokenizer")),
                      "Content sentiment too negative", <<"load_failed">>)
    /\ UNCHANGED <<staticVars, req, content, sent, loadRuns, parseRuns, handled, tokVars,
                   bordVars>>

\* tract_model.rs 9-77 and lib.rs 136-254: the content tokenized, the model
\* bytes parsed and run, the score, the classification and the decision
Infer(t) ==
    /\ pc[t] = "infer"
    /\ parseRuns' = parseRuns + 1
    /\ Decide(t, tract_classification(
                    classify_tokens(model, tokenize(VOCAB.vocab, content[t]))),
              "Content sentiment too negative", <<"model_parse">>)
    /\ UNCHANGED <<staticVars, VOCAB, req, content, sent, loadRuns, handled, tokVars,
                   bordVars>>

\* lines 259-281: the request is sent upstream and the answer returned.
\* BORD_TARGET is set in every deployment that is modelled (line 260 panics
\* without it).
Forward(t) ==
    /\ pc[t] = "forward"
    /\ sent' = [sent EXCEPT ![t] = Append(@, forwarded(req[t]))]
    /\ \E u \in UpstreamOutcomes : resp' = [resp EXCEPT ![t] = u]
    /\ pc' = [pc EXCEPT ![t] = "done"]
    /\ UNCHANGED <<staticVars, VOCAB, req, content, cls, trace, loadRuns, parseRuns,
                   handled, tokVars,
                   bordVars>>

\* the call of handle is over; the thread is free for the next request
Finish(t) ==
    /\ pc[t] = "done"
    /\ pc' = [pc EXCEPT ![t] = "idle"]
    /\ req' = [req EXCEPT ![t] = NoRequest]
    /\ content' = [content EXCEPT ![t] = <<>>]
    /\ cls' = [cls EXCEPT ![t] = NoClassification]
    /\ resp' = [resp EXCEPT ![t] = NoResponse]
    /\ sent' = [sent EXCEPT ![t] = <<>>]
    /\ trace' = [trace EXCEPT ![t] = <<>>]
    /\ handled' = handled + 1
    /\ UNCHANGED <<staticVars, VOCAB, loadRuns, parseRuns, tokVars,
                   bordVars>>

-----------------------------------------------------------------------------
(* The backend (src/src): its key-value store and its request handlers.     *)
(* A UUID is a positive number, the k-th one handed out being k; as a       *)
(* string in a request, 0 is the empty string and a negative number a       *)
(* string that is no UUID.  Time is counted in half hours.                  *)

MAX_POST_LENGTH == 5000
MAX_BIO_LENGTH == 500
MIN_USERNAME_LENGTH == 3
MAX_USERNAME_LENGTH == 50
MIN_PASSWORD_LENGTH == 3
DEFAULT_EXPIRATION_HOURS == 24

USERS_LIST_KEY == <<"users_list", 0>>
FEED_KEY == <<"feed", 0>>
TOKENS_LIST_KEY == <<"tokens_list", 0>>

user_key(id) == <<"user", id>>
post_key(id) == <<"post", id>>
token_key(token) == <<"token", token>>
followings_key(user_id) == <<"followings", user_id>>

\* Store::get_json, set_json and delete
get_json(s, key) == IF key \in DOMAIN s THEN Some(s[key]) ELSE None

\* get_json(key)?.unwrap_or_default() on a list
get_list(s, key) == IF key \in DOMAIN s THEN s[key] ELSE <<>>

set_json(s, key, value) == Insert(s, key, value)

delete(s, key) == [k \in DOMAIN s \ {key} |-> s[k]]

contains(list, x) == \E i \in 1..Len(list) : list[i] = x

\* Vec::retain(|id| id != x)
RECURSIVE retain_not(_, _)
retain_not(list, x) ==
    IF list = <<>> THEN <<>>
    ELSE IF Head(list) = x THEN retain_not(Tail(list), x)
    ELSE <<Head(list)>> \o retain_not(Tail(list), x)

\* now_iso and chrono's parse_from_rfc3339 of what it wrote
now_iso(t) == [rfc3339 |-> TRUE, at |-> t]

parse_from_rfc3339(str) == IF str.rfc3339 THEN Ok(str.at) ELSE Err("parse")

\* Duration::num_hours of a number of half hours: whole hours
num_hours(halves) == halves \div 2

\* the salt of the hash is left out: verification depends on the password only
hash_password(password) == [argon2 |-> password]

verify_password_Always(password, hash) == hash = hash

verify_password(password, hash) == hash.argon2 = password

token_expiration_hours(env) ==
    IF env.some /\ env.value.parses THEN env.value.number
    ELSE DEFAULT_EXPIRATION_HOURS

NoAuth == [kind |-> "none", token |-> 0]

NoCall == [op |-> "none", auth |-> NoAuth, id |-> 0, body |-> [kind |-> "none"],
           at |-> 0]

NoReply == [status |-> 0, body |-> [kind |-> "none"]]

\* the create_user requests that run concurrently, each in an instance of
\* its own, and one that has not arrived
Instances == 1..MaxConcurrent

NotArrived == [pc |-> "idle", body |-> [kind |-> "none"], existing_users |-> <<>>,
               i |-> 0, id |-> 0, reply |-> NoReply, taken |-> FALSE]

BordOff ==
    /\ inflight = [r \in Instances |-> NotArrived]
    /\ store = <<>>
    /\ now = 0
    /\ uuids = 0
    /\ BORD_TOKEN_EXPIRATION_HOURS = None
    /\ call = NoCall
    /\ reply = NoReply
    /\ storeBefore = <<>>
    /\ issued = <<>>
    /\ lastFollow = <<>>

\* the responses of ApiError and of helpers::unauthorized, and what main.rs
\* makes of a handler's Err
Unauthorized == [status |-> 401, body |-> [kind |-> "error", error |-> "Unauthorized"]]
BadRequest(msg) == [status |-> 400, body |-> [kind |-> "error", error |-> msg]]
Forbidden == [status |-> 403, body |-> [kind |-> "error", error |-> "Forbidden"]]
NotFound(msg) == [status |-> 404, body |-> [kind |-> "error", error |-> msg]]
Conflict(msg) == [status |-> 409, body |-> [kind |-> "error", error |-> msg]]
InternalError ==
    [status |-> 500, body |-> [kind |-> "error", error |-> "Internal server error"]]

\* what a handler leaves: the store, the response, and how many of the UUIDs
\* it generated it has used
Outcome(s, r, n) == [store |-> s, reply |-> r, uuids |-> n]

validate_token_NoExpiry(s, t, env, auth) ==
    IF auth.kind # "bearer" THEN None
    ELSE LET data == get_json(s, token_key(auth.token))
         IN  IF ~data.some THEN None
             ELSE IF ~get_json(s, user_key(data.value.user_id)).some THEN None
             ELSE Some(data.value.user_id)

validate_token(s, t, env, auth) ==
    IF auth.kind # "bearer" THEN None
    ELSE LET data == get_json(s, token_key(auth.token))
         IN  IF ~data.some THEN None
             ELSE LET created == parse_from_rfc3339(data.value.created_at)
                  IN  IF created.ok
                         /\ num_hours(t - created.value) > token_expiration_hours(env)
                      THEN None
                      ELSE IF ~get_json(s, user_key(data.value.user_id)).some
                      THEN None
                      ELSE Some(data.value.user_id)

\* users.rs: ammonia with no tag allowed keeps the text outside the tags
InTag(text, i) ==
    \E j \in 1..i :
        /\ text[j] = "<"
        /\ \A m \in j..(i - 1) : text[m] # ">"
        /\ \E k \in i..Len(text) : text[k] = ">"

sanitize_text(text) ==
    LET keep == {i \in 1..Len(text) : ~InTag(text, i)}
    IN  [k \in 1..Cardinality(keep) |->
            text[CHOOSE i \in keep : Cardinality({j \in keep : j <= i}) = k]]

\* the string field of a JSON body, "" when the field is missing or no string
Field(body, name) == IF name \in DOMAIN body THEN body[name] ELSE <<>>

username_taken(s, users, name) ==
    \E i \in 1..Len(users) :
        LET u == get_json(s, user_key(users[i]))
        IN  u.some /\ u.value.username = name

create_user(s, uuid, body) ==
    IF body.kind # "json" THEN Outcome(s, InternalError, 0)
    ELSE LET username == Field(body, "username")
             password == Field(body, "password")
             sanitized_username == sanitize_text(username)
             existing_users == get_list(s, USERS_LIST_KEY)
             user == [id |-> uuid, username |-> sanitized_username,
                      password |-> hash_password(password), bio |-> None]
         IN  IF username = <<>>
             THEN Outcome(s, BadRequest("Username is required"), 0)
             ELSE IF Len(username) < MIN_USERNAME_LENGTH
                     \/ Len(username) > MAX_USERNAME_LENGTH
             THEN Outcome(s, BadRequest("Username must be 3-50 characters"), 0)
             ELSE IF password = <<>>
             THEN Outcome(s, BadRequest("Password is required"), 0)
             ELSE IF Len(password) < MIN_PASSWORD_LENGTH
             THEN Outcome(s, BadRequest("Password must be at least 3 characters"), 0)
             ELSE IF username_taken(s, existing_users, sanitized_username)
             THEN Outcome(s, Conflict("Username exists"), 0)
             ELSE Outcome(set_json(set_json(s, user_key(uuid), user),
                                   USERS_LIST_KEY, Append(existing_users, uuid)),
                          [status |-> 201, body |-> [kind |-> "user", user |-> user]],
                          1)

\* the UUID check of core::helpers
validate_uuid(id) == id > 0

\* auth.rs: login_user from the i-th entry of users_list on
RECURSIVE login_from(_, _, _, _, _, _, _)
login_from(s, t, uuid, users, i, username, password) ==
    IF i > Len(users) THEN Outcome(s, Unauthorized, 0)
    ELSE LET u == get_json(s, user_key(users[i]))
         IN  IF ~u.some
             THEN login_from(s, t, uuid, users, i + 1, username, password)
             ELSE IF u.value.id = 0 \/ ~validate_uuid(u.value.id)
             THEN Outcome(s, Unauthorized, 0)
             ELSE IF u.value.username = username
                     /\ verify_password(password, u.value.password)
             THEN LET data == [user_id |-> u.value.id, created_at |-> now_iso(t)]
                      s1 == set_json(s, token_key(uuid), data)
                      tokens == get_list(s1, TOKENS_LIST_KEY)
                  IN  Outcome(set_json(s1, TOKENS_LIST_KEY, Append(tokens, uuid)),
                              [status |-> 200,
                               body |-> [kind |-> "login", token |-> uuid,
                                         user_id |-> u.value.id]],
                              1)
             ELSE login_from(s, t, uuid, users, i + 1, username, password)

login_user(s, t, uuid, body) ==
    IF body.kind # "json" THEN Outcome(s, InternalError, 0)
    ELSE login_from(s, t, uuid, get_list(s, USERS_LIST_KEY), 1,
                    Field(body, "username"), Field(body, "password"))

\* posts.rs.  A post content is written as its text and its length in bytes
\* (str::len)
EmptyContent == [text |-> "", len |-> 0]

\* value["content"].as_str().unwrap_or_default(): the content field of a JSON
\* body, "" when it is missing or no string
ContentOf(body) ==
    IF "content" \in DOMAIN body /\ "text" \in DOMAIN body.content THEN body.content
    ELSE EmptyContent

\* filter_post_content: ammonia removes the script, the URL becomes a link;
\* text without markup and URL is kept as it is
Filtered ==
    "<script>x</script>hi" :> [text |-> "hi", len |-> 2] @@
    "http://a.b" :>
        [text |-> "<a href=\"http://a.b\" target=\"_blank\">http://a.b</a>", len |-> 51]

filter_post_content(raw) ==
    IF raw.text \in DOMAIN Filtered THEN Filtered[raw.text] ELSE raw

\* the owner check of edit_post and delete_post passing for every user
owned_by_Anyone(post, user_id) == post = post

\* p.user_id != user_id, negated: the post is the user's
owned_by(post, user_id) == post.user_id = user_id

create_post_OffByOne(s, t, env, uuid, auth, body) ==
    LET user_id == validate_token(s, t, env, auth)
        raw == ContentOf(body)
        post == [id |-> uuid, user_id |-> user_id.value,
                 content |-> filter_post_content(raw),
                 created_at |-> now_iso(t), updated_at |-> None]
    IN  IF ~user_id.some THEN Outcome(s, Unauthorized, 0)
        ELSE IF body.kind # "json" THEN Outcome(s, InternalError, 0)
        ELSE IF raw.len = 0 \/ raw.len >= MAX_POST_LENGTH
        THEN Outcome(s, BadRequest("Invalid content"), 0)
        ELSE LET s1 == set_json(s, post_key(uuid), post)
                 feed == get_list(s1, FEED_KEY)
             IN  Outcome(set_json(s1, FEED_KEY, <<uuid>> \o feed),
                         [status |-> 201, body |-> [kind |-> "post", post |-> post]],
                         1)

create_post(s, t, env, uuid, auth, body) ==
    LET user_id == validate_token(s, t, env, auth)
        raw == ContentOf(body)
        post == [id |-> uuid, user_id |-> user_id.value,
                 content |-> filter_post_content(raw),
                 created_at |-> now_iso(t), updated_at |-> None]
    IN  IF ~user_id.some THEN Outcome(s, Unauthorized, 0)
        ELSE IF body.kind # "json" THEN Outcome(s, InternalError, 0)
        ELSE IF raw.len = 0 \/ raw.len > MAX_POST_LENGTH
        THEN Outcome(s, BadRequest("Invalid content"), 0)
        ELSE LET s1 == set_json(s, post_key(uuid), post)
                 feed == get_list(s1, FEED_KEY)
             IN  Outcome(set_json(s1, FEED_KEY, <<uuid>> \o feed),
                         [status |-> 201, body |-> [kind |-> "post", post |-> post]],
                         1)

edit_post_AlwaysWrite(s, t, env, auth, post_id, body) ==
    LET user_id == validate_token(s, t, env, auth)
        found == get_json(s, post_key(post_id))
        raw == ContentOf(body)
        filtered_content == filter_post_content(raw)
        updated == [found.value EXCEPT !.content = filtered_content,
                                       !.updated_at = Some(now_iso(t))]
    IN  IF ~user_id.some THEN Outcome(s, Unauthorized, 0)
        ELSE IF post_id = 0 \/ ~validate_uuid(post_id)
        THEN Outcome(s, BadRequest("Post ID required"), 0)
        ELSE IF ~found.some THEN Outcome(s, NotFound("Post not found"), 0)
        ELSE IF ~owned_by(found.value, user_id.value) THEN Outcome(s, Forbidden, 0)
        ELSE IF body.kind # "json" THEN Outcome(s, InternalError, 0)
        ELSE IF raw.len = 0 \/ raw.len > MAX_POST_LENGTH
        THEN Outcome(s, BadRequest("Invalid content"), 0)
        ELSE IF found.value.content = filtered_content /\ FALSE
        THEN Outcome(s, [status |-> 200,
                         body |-> [kind |-> "post", post |-> found.value]], 0)
        ELSE Outcome(set_json(s, post_key(post_id), updated),
                     [status |-> 200, body |-> [kind |-> "post", post |-> updated]], 0)

edit_post(s, t, env, auth, post_id, body) ==
    LET user_id == validate_token(s, t, env, auth)
        found == get_json(s, post_key(post_id))
        raw == ContentOf(body)
        filtered_content == filter_post_content(raw)
        updated == [found.value EXCEPT !.content = filtered_content,
                                       !.updated_at = Some(now_iso(t))]
    IN  IF ~user_id.some THEN Outcome(s, Unauthorized, 0)
        ELSE IF post_id = 0 \/ ~validate_uuid(post_id)
        THEN Outcome(s, BadRequest("Post ID required"), 0)
        ELSE IF ~found.some THEN Outcome(s, NotFound("Post not found"), 0)
        ELSE IF ~owned_by(found.value, user_id.value) THEN Outcome(s, Forbidden, 0)
        ELSE IF body.kind # "json" THEN Outcome(s, InternalError, 0)
        ELSE IF raw.len = 0 \/ raw.len > MAX_POST_LENGTH
        THEN Outcome(s, BadRequest("Invalid content"), 0)
        ELSE IF found.value.content = filtered_content
        THEN Outcome(s, [status |-> 200,
                         body |-> [kind |-> "post", post |-> found.value]], 0)
        ELSE Outcome(set_json(s, post_key(post_id), updated),
                     [status |-> 200, body |-> [kind |-> "post", post |-> updated]], 0)

delete_post_KeepFeed(s, t, env, auth, post_id) ==
    LET user_id == validate_token(s, t, env, auth)
        found == get_json(s, post_key(post_id))
    IN  IF ~user_id.some THEN Outcome(s, Unauthorized, 0)
        ELSE IF post_id = 0 \/ ~validate_uuid(post_id)
        THEN Outcome(s, BadRequest("Post ID required"), 0)
        ELSE IF ~found.some THEN Outcome(s, NotFound("Post not found"), 0)
        ELSE IF ~owned_by(found.value, user_id.value) THEN Outcome(s, Forbidden, 0)
        ELSE LET s1 == delete(s, post_key(post_id))
                 feed == get_list(s1, FEED_KEY)
             IN  Outcome(set_json(s1, FEED_KEY, feed),
                         [status |-> 204, body |-> [kind |-> "none"]], 0)

delete_post(s, t, env, auth, post_id) ==
    LET user_id == validate_token(s, t, env, auth)
        found == get_json(s, post_key(post_id))
    IN  IF ~user_id.some THEN Outcome(s, Unauthorized, 0)
        ELSE IF post_id = 0 \/ ~validate_uuid(post_id)
        THEN Outcome(s, BadRequest("Post ID required"), 0)
        ELSE IF ~found.some THEN Outcome(s, NotFound("Post not found"), 0)
        ELSE IF ~owned_by(found.value, user_id.value) THEN Outcome(s, Forbidden, 0)
        ELSE LET s1 == delete(s, post_key(post_id))
                 feed == get_list(s1, FEED_KEY)
             IN  Outcome(set_json(s1, FEED_KEY, retain_not(feed, post_id)),
                         [status |-> 204, body |-> [kind |-> "none"]], 0)

\* posts.sort_by(|a, b| b.created_at.cmp(&a.created_at)): a stable sort, the
\* later created_at first; p is put behind the posts that are not older
RECURSIVE insert_by_created_at(_, _)
insert_by_created_at(sorted, p) ==
    IF sorted = <<>> THEN <<p>>
    ELSE IF Head(sorted).created_at.at >= p.created_at.at
    THEN <<Head(sorted)>> \o insert_by_created_at(Tail(sorted), p)
    ELSE <<p>> \o sorted

RECURSIVE sort_by_created_at(_, _)
sort_by_created_at(posts, sorted) ==
    IF posts = <<>> THEN sorted
    ELSE sort_by_created_at(Tail(posts), insert_by_created_at(sorted, Head(posts)))

\* get_feed: the loop over the feed from its i-th id on
RECURSIVE feed_from(_, _, _, _, _)
feed_from(s, feed, i, followings, posts) ==
    IF i > Len(feed) THEN posts
    ELSE LET p == get_json(s, post_key(feed[i]))
         IN  IF p.some /\ contains(followings, p.value.user_id)
             THEN feed_from(s, feed, i + 1, followings, Append(posts, p.value))
             ELSE feed_from(s, feed, i + 1, followings, posts)

get_feed(s, t, env, auth) ==
    LET user_id == validate_token(s, t, env, auth)
        followings == get_list(s, followings_key(user_id.value))
        feed == get_list(s, FEED_KEY)
        posts == feed_from(s, feed, 1, followings, <<>>)
    IN  IF ~user_id.some THEN Outcome(s, Unauthorized, 0)
        ELSE Outcome(s, [status |-> 200,
                         body |-> [kind |-> "posts",
                                   posts |-> sort_by_created_at(posts, <<>>)]], 0)

\* follow.rs
follow_user_NoCheck(s, follower_id, following_id) ==
    LET followings == get_list(s, followings_key(follower_id))
    IN  set_json(s, followings_key(follower_id), Append(followings, following_id))

follow_user(s, follower_id, following_id) ==
    LET followings == get_list(s, followings_key(follower_id))
    IN  IF ~contains(followings, following_id)
        THEN set_json(s, followings_key(follower_id), Append(followings, following_id))
        ELSE s

unfollow_user(s, follower_id, following_id) ==
    LET followings == get_list(s, followings_key(follower_id))
    IN  set_json(s, followings_key(follower_id), retain_not(followings, following_id))

get_followings(s, user_id) == get_list(s, followings_key(user_id))

\* the target_user_id field of a JSON body, "" when missing or no string
TargetOf(body) == IF "target_user_id" \in DOMAIN body THEN body.target_user_id ELSE 0

Status(word) == [status |-> 200, body |-> [kind |-> "status", status |-> word]]

handle_follow(s, t, env, auth, body) ==
    LET user_id == validate_token(s, t, env, auth)
        target_user_id == TargetOf(body)
    IN  IF ~user_id.some THEN Outcome(s, Unauthorized, 0)
        ELSE IF body.kind # "json" THEN Outcome(s, InternalError, 0)
        ELSE IF target_user_id = 0 \/ ~validate_uuid(target_user_id)
                \/ target_user_id = user_id.value
        THEN Outcome(s, BadRequest("Invalid target user"), 0)
        ELSE IF ~get_json(s, user_key(target_user_id)).some
        THEN Outcome(s, NotFound("Target user not found"), 0)
        ELSE Outcome(follow_user(s, user_id.value, target_user_id),
                     Status("followed"), 0)

handle_unfollow(s, t, env, auth, body) ==
    LET user_id == validate_token(s, t, env, auth)
        target_user_id == TargetOf(body)
    IN  IF ~user_id.some THEN Outcome(s, Unauthorized, 0)
        ELSE IF body.kind # "json" THEN Outcome(s, InternalError, 0)
        ELSE IF target_user_id = 0 \/ ~validate_uuid(target_user_id)
        THEN Outcome(s, BadRequest("Invalid target user"), 0)
        ELSE Outcome(unfollow_user(s, user_id.value, target_user_id),
                     Status("unfollowed"), 0)

\* users.rs: update_profile.  The tokens of tokens_list that are not user_id's,
\* and the store with the others deleted
RECURSIVE revoke_tokens(_, _, _, _)
revoke_tokens(s, all_tokens, user_id, kept) ==
    IF all_tokens = <<>> THEN [store |-> s, filtered_tokens |-> kept]
    ELSE LET token == Head(all_tokens)
             token_data == get_json(s, token_key(token))
         IN  IF token_data.some /\ token_data.value.user_id = user_id
             THEN revoke_tokens(delete(s, token_key(token)), Tail(all_tokens),
                                user_id, kept)
             ELSE revoke_tokens(s, Tail(all_tokens), user_id, Append(kept, token))

build_user_json(user) ==
    [id |-> user.id, username |-> user.username,
     bio |-> IF user.bio.some THEN user.bio.value ELSE <<>>]

update_profile_NoRevoke(s, t, env, uuid, auth, body) ==
    LET user_id == validate_token(s, t, env, auth)
        found == get_json(s, user_key(user_id.value))
        has_bio == "bio" \in DOMAIN body
        has_new == "new_password" \in DOMAIN body
        sanitized_bio == sanitize_text(body.bio)
        with_bio == IF has_bio
                    THEN [found.value EXCEPT
                            !.bio = IF sanitized_bio = <<>> THEN None
                                    ELSE Some(sanitized_bio)]
                    ELSE found.value
        user == IF has_new
                THEN [with_bio EXCEPT !.password = hash_password(body.new_password)]
                ELSE with_bio
        s1 == set_json(s, user_key(user_id.value), user)
        revoked == [store |-> s1, filtered_tokens |-> get_list(s1, TOKENS_LIST_KEY)]
        s2 == set_json(revoked.store, TOKENS_LIST_KEY, revoked.filtered_tokens)
        token_data == [user_id |-> user_id.value, created_at |-> now_iso(t)]
        s3 == set_json(s2, token_key(uuid), token_data)
        s4 == set_json(s3, TOKENS_LIST_KEY, Append(revoked.filtered_tokens, uuid))
    IN  IF ~user_id.some THEN Outcome(s, Unauthorized, 0)
        ELSE IF ~found.some THEN Outcome(s, NotFound("User not found"), 0)
        ELSE IF body.kind # "json" THEN Outcome(s, InternalError, 0)
        ELSE IF has_bio /\ Len(body.bio) > MAX_BIO_LENGTH
        THEN Outcome(s, BadRequest("Bio too long (max 500 chars)"), 0)
        ELSE IF has_new /\ Len(body.new_password) < 3
        THEN Outcome(s, BadRequest("Password must be 3+ characters"), 0)
        ELSE IF has_new /\ "old_password" \notin DOMAIN body
        THEN Outcome(s, InternalError, 0)
        ELSE IF has_new /\ ~verify_password(body.old_password, found.value.password)
        THEN Outcome(s, Unauthorized, 0)
        ELSE IF has_new
        THEN Outcome(s4, [status |-> 200,
                          body |-> [kind |-> "profile", user |-> build_user_json(user),
                                    token |-> Some(uuid)]], 1)
        ELSE Outcome(s1, [status |-> 200,
                          body |-> [kind |-> "profile", user |-> build_user_json(user),
                                    token |-> None]], 0)

update_profile(s, t, env, uuid, auth, body) ==
    LET user_id == validate_token(s, t, env, auth)
        found == get_json(s, user_key(user_id.value))
        has_bio == "bio" \in DOMAIN body
        has_new == "new_password" \in DOMAIN body
        sanitized_bio == sanitize_text(body.bio)
        with_bio == IF has_bio
                    THEN [found.value EXCEPT
                            !.bio = IF sanitized_bio = <<>> THEN None
                                    ELSE Some(sanitized_bio)]
                    ELSE found.value
        user == IF has_new
                THEN [with_bio EXCEPT !.password = hash_password(body.new_password)]
                ELSE with_bio
        s1 == set_json(s, user_key(user_id.value), user)
        revoked == revoke_tokens(s1, get_list(s1, TOKENS_LIST_KEY), user_id.value, <<>>)
        s2 == set_json(revoked.store, TOKENS_LIST_KEY, revoked.filtered_tokens)
        token_data == [user_id |-> user_id.value, created_at |-> now_iso(t)]
        s3 == set_json(s2, token_key(uuid), token_data)
        s4 == set_json(s3, TOKENS_LIST_KEY, Append(revoked.filtered_tokens, uuid))
    IN  IF ~user_id.some THEN Outcome(s, Unauthorized, 0)
        ELSE IF ~found.some THEN Outcome(s, NotFound("User not found"), 0)
        ELSE IF body.kind # "json" THEN Outcome(s, InternalError, 0)
        ELSE IF has_bio /\ Len(body.bio) > MAX_BIO_LENGTH
        THEN Outcome(s, BadRequest("Bio too long (max 500 chars)"), 0)
        ELSE IF has_new /\ Len(body.new_password) < 3
        THEN Outcome(s, BadRequest("Password must be 3+ characters"), 0)
        ELSE IF has_new /\ "old_password" \notin DOMAIN body
        THEN Outcome(s, InternalError, 0)
        ELSE IF has_new /\ ~verify_password(body.old_password, found.value.password)
        THEN Outcome(s, Unauthorized, 0)
        ELSE IF has_new
        THEN Outcome(s4, [status |-> 200,
                          body |-> [kind |-> "profile", user |-> build_user_json(user),
                                    token |-> Some(uuid)]], 1)
        ELSE Outcome(s1, [status |-> 200,
                          body |-> [kind |-> "profile", user |-> build_user_json(user),
                                    token |-> None]], 0)

-----------------------------------------------------------------------------
(* What the process is given *)

Methods == {"POST", "PUT", "GET"}

Paths == {POSTS, POSTS \o <<"/", "1">>, <<"/", "u", "s", "e", "r", "s">>}

Contents == {<<>>, <<"h", "i">>, <<"S", "P", "A", "M", "!">>, <<"x">>}

Bodies ==
    {[kind |-> k, content |-> <<>>] : k \in {"invalid", "no_content", "non_string"}}
    \cup {[kind |-> "string", content |-> c] : c \in Contents}

TextHeaders ==
    {<<"authorization", <<"B", "e", "a", "r", "e", "r", " ", "t">>>>,
     <<"content-type",
       <<"a", "p", "p", "l", "i", "c", "a", "t", "i", "o", "n",
         "/", "j", "s", "o", "n">>>>}

\* the headers of a request: text values alone, or also a value that is not
\* UTF-8
RequestHeaders ==
    {TextHeaders, TextHeaders \cup {<<"x-trace", <<"i", "d", "0xFF">>>>}}

Requests ==
    {[method |-> m, path |-> p, body |-> b, headers |-> h] :
        m \in Methods, p \in Paths, b \in Bodies, h \in RequestHeaders}

ModeratedRequests ==
    {r \in Requests : is_moderated(r.method, r.path) /\ r.body.kind = "string"}

ForbiddenSettings ==
    {None, Some(<<>>), Some(<<",", " ">>),
     Some(<<" ", "S", "p", "a", "m", " ", ",", ",", "x">>)}

\* config.toml is not part of the sources
Configs ==
    {[enable_llm |-> l, enable_tract |-> m, sentiment_score_threshold |-> th] :
        l \in BOOLEAN, m \in BOOLEAN, th \in {200000000, 400000000}}

InitStatics ==
    /\ vocabData = BertVocab
    /\ VOCAB = NotSet
    /\ model \in Models
    /\ FORBIDDEN_WORDS \in ForbiddenSettings
    /\ config \in Configs
    /\ IdleThreads
    /\ loadRuns = 0 /\ parseRuns = 0 /\ handled = 0
    /\ tokPc = "off" /\ tokText = <<>> /\ tokOut = <<>> /\ tokMask = <<>>
    /\ BordOff

-----------------------------------------------------------------------------
(* The process serving one request after the other on one thread *)

Main == CHOOSE t \in Threads : \A u \in Threads : t <= u

Init == InitStatics

Next ==
    \/ \E r \in Requests : handled < MaxRequests /\ HandleStart(Main, r)
    \/ ClassifyLlm(Main)
    \/ TractLoadGet(Main)
    \/ TractLoadSet(Main)
    \/ Infer(Main)
    \/ Forward(Main)
    \/ Finish(Main)

Spec == Init /\ [][Next]_vars

-----------------------------------------------------------------------------
(* Several threads of one process, each calling handle once with a post,   *)
(* the local model enabled                                                  *)

ConcModels ==
    ErrorModels \cup
    {[kind |-> "constant", neg |-> l[1], pos |-> l[2]] : l \in {<<16, -16>>, <<0, 0>>}}

ConcRequests ==
    {r \in ModeratedRequests :
        r.method = "POST" /\ r.path = POSTS /\ r.headers = TextHeaders}

InitConc ==
    /\ InitStatics
    /\ model \in ConcModels
    /\ FORBIDDEN_WORDS \in ForbiddenSettings \ {Some(<<>>), Some(<<",", " ">>)}
    /\ ~config.enable_llm /\ config.enable_tract
    /\ config.sentiment_score_threshold = 400000000

NextConc ==
    \E t \in Threads :
        \/ \E r \in ConcRequests : HandleStart(t, r)
        \/ TractLoadGet(t)
        \/ TractLoadSet(t)
        \/ Infer(t)
        \/ Forward(t)

SpecConc == InitConc /\ [][NextConc]_vars

-----------------------------------------------------------------------------
(* The scorer: one post classified by the local model, over models whose   *)
(* two logits range from far apart to equal                                *)

ScoreModels ==
    {[kind |-> "constant", neg |-> n, pos |-> n + d] :
        n \in {-8, 0, 24}, d \in DOMAIN SigmoidTable}

ScoreRequest ==
    [method |-> "POST", path |-> POSTS,
     body |-> [kind |-> "string", content |-> <<"h", "i">>],
     headers |-> TextHeaders]

InitScore ==
    /\ vocabData = BertVocab
    /\ VOCAB = NotSet
    /\ model \in ScoreModels
    /\ FORBIDDEN_WORDS = None
    /\ config \in {c \in Configs : ~c.enable_llm /\ c.enable_tract}
    /\ IdleThreads
    /\ loadRuns = 0 /\ parseRuns = 0 /\ handled = 0
    /\ tokPc = "off" /\ tokText = <<>> /\ tokOut = <<>> /\ tokMask = <<>>
    /\ BordOff

NextScore ==
    \/ HandleStart(Main, ScoreRequest)
    \/ TractLoadGet(Main)
    \/ TractLoadSet(Main)
    \/ Infer(Main)
    \/ Forward(Main)

SpecScore == InitScore /\ [][NextScore]_vars

-----------------------------------------------------------------------------
(* The tokenizer on its own: one caller loads the vocabulary, tokenizes    *)
(* one text and builds the attention mask, as classify_sentiment does.     *)

TokAlphabet == {"a", "B", " ", "."}

Strings(maxLen) == UNION {[1..n -> TokAlphabet] : n \in 0..maxLen}

Repeat(unit, n) == [i \in 1..(n * Len(unit)) |-> unit[((i - 1) % Len(unit)) + 1]]

RepeatCounts == (MAX_LEN - 2 - MaxNear)..(MAX_LEN + MaxNear)

\* every short text, and long texts whose number of words and punctuation
\* marks lies around MAX_LEN
TokTexts ==
    Strings(MaxShort) \cup
    {p \o Repeat(u, n) :
        p \in Strings(MaxPrefix), u \in {<<".">>, <<"a", " ">>}, n \in RepeatCounts}

InitTok ==
    /\ vocabData \in VocabFiles
    /\ VOCAB = NotSet
    /\ model = UnparsableModel
    /\ FORBIDDEN_WORDS = None
    /\ config = [enable_llm |-> FALSE, enable_tract |-> TRUE,
                 sentiment_score_threshold |-> 400000000]
    /\ IdleThreads
    /\ loadRuns = 0 /\ parseRuns = 0 /\ handled = 0
    /\ tokPc = "load"
    /\ tokText \in TokTexts
    /\ tokOut = <<>>
    /\ tokMask = <<>>
    /\ BordOff

\* Tokenizer::load with a single caller
TokLoad ==
    /\ tokPc = "load"
    /\ VOCAB' = IF VOCAB.set THEN VOCAB
                ELSE [set |-> TRUE, vocab |-> ParseVocab(vocabData)]
    /\ loadRuns' = IF VOCAB.set THEN loadRuns ELSE loadRuns + 1
    /\ tokPc' = "tokenize"
    /\ UNCHANGED <<staticVars, threadVars, parseRuns, handled, tokText, tokOut, tokMask,
                   bordVars>>

TokTokenize ==
    /\ tokPc = "tokenize"
    /\ tokOut' = tokenize(VOCAB.vocab, tokText)
    /\ tokPc' = "mask"
    /\ UNCHANGED <<staticVars, threadVars, VOCAB, loadRuns, parseRuns, handled,
                   tokText, tokMask,
                   bordVars>>

\* tract_model.rs 11-15: the attention mask built from the token IDs
TokMask ==
    /\ tokPc = "mask"
    /\ tokMask' = attention_mask(tokOut)
    /\ tokPc' = "done"
    /\ UNCHANGED <<staticVars, threadVars, VOCAB, loadRuns, parseRuns, handled,
                   tokText, tokOut,
                   bordVars>>

NextTok == TokLoad \/ TokTokenize \/ TokMask

SpecTok == InitTok /\ [][NextTok]_vars

-----------------------------------------------------------------------------
(* The backend serving one request after the other, each run to completion *)

filterVars == <<staticVars, VOCAB, threadVars, loadRuns, parseRuns, handled, tokVars>>

\* a request arrives at the idle server and its handler runs
\* the client keeps the token of a successful login, as the tests do
Held(op, body, r) ==
    IF op = "login_user" /\ r.status = 200
    THEN Insert(issued, r.body.token,
                [username |-> body.username, user_id |-> r.body.user_id])
    ELSE issued

\* the client notes a follow or unfollow that was answered 200 under the user
\* id its login returned
Followed(op, auth, body, r) ==
    IF op \in {"handle_follow", "handle_unfollow"} /\ r.status = 200
       /\ auth.token \in DOMAIN issued
    THEN Insert(lastFollow, <<issued[auth.token].user_id, body.target_user_id>>, op)
    ELSE lastFollow

Handle(op, auth, id, body, out) ==
    /\ call = NoCall
    /\ call' = [op |-> op, auth |-> auth, id |-> id, body |-> body, at |-> now]
    /\ storeBefore' = store
    /\ store' = out.store
    /\ reply' = out.reply
    /\ uuids' = uuids + out.uuids
    /\ issued' = Held(op, body, out.reply)
    /\ lastFollow' = Followed(op, auth, body, out.reply)
    /\ UNCHANGED <<now, BORD_TOKEN_EXPIRATION_HOURS, inflight, filterVars>>

\* Uuid::new_v4
Fresh == uuids + 1

CreateUser(body) ==
    Handle("create_user", NoAuth, 0, body, create_user(store, Fresh, body))

LoginUser(body) ==
    Handle("login_user", NoAuth, 0, body, login_user(store, now, Fresh, body))

CreatePost(auth, body) ==
    Handle("create_post", auth, 0, body,
           create_post(store, now, BORD_TOKEN_EXPIRATION_HOURS, Fresh, auth, body))

EditPost(auth, post_id, body) ==
    Handle("edit_post", auth, post_id, body,
           edit_post(store, now, BORD_TOKEN_EXPIRATION_HOURS, auth, post_id, body))

DeletePost(auth, post_id) ==
    Handle("delete_post", auth, post_id, [kind |-> "none"],
           delete_post(store, now, BORD_TOKEN_EXPIRATION_HOURS, auth, post_id))

Follow(auth, body) ==
    Handle("handle_follow", auth, 0, body,
           handle_follow(store, now, BORD_TOKEN_EXPIRATION_HOURS, auth, body))

Unfollow(auth, body) ==
    Handle("handle_unfollow", auth, 0, body,
           handle_unfollow(store, now, BORD_TOKEN_EXPIRATION_HOURS, auth, body))

UpdateProfile(auth, body) ==
    Handle("update_profile", auth, 0, body,
           update_profile(store, now, BORD_TOKEN_EXPIRATION_HOURS, Fresh, auth, body))

GetFeed(auth) ==
    Handle("get_feed", auth, 0, [kind |-> "none"],
           get_feed(store, now, BORD_TOKEN_EXPIRATION_HOURS, auth))

\* the response is out; the server waits for the next request
Return ==
    /\ call # NoCall
    /\ call' = NoCall
    /\ reply' = NoReply
    /\ storeBefore' = <<>>
    /\ UNCHANGED <<store, now, uuids, BORD_TOKEN_EXPIRATION_HOURS, issued, lastFollow,
                   inflight, filterVars>>

\* time passes between two requests
Tick ==
    /\ call = NoCall
    /\ now < MaxClock
    /\ now' = now + 1
    /\ UNCHANGED <<store, uuids, BORD_TOKEN_EXPIRATION_HOURS, call, reply, storeBefore,
                   issued, lastFollow, inflight, filterVars>>

\* what the clients send
Ann == <<"a", "n", "n">>
Bob == <<"b", "o", "b">>
Pw1 == <<"p", "w", "1">>
Pw2 == <<"p", "w", "2">>

InvalidJson == [kind |-> "invalid"]

Usernames == {Ann, Bob, <<"<", "i", ">">> \o Ann, <<"a", "l">>}

Passwords == {Pw1, Pw2, <<"p">>}

CredentialBodies ==
    {InvalidJson, [kind |-> "json"]}
    \cup {[kind |-> "json", username |-> u, password |-> p] :
            u \in Usernames, p \in Passwords}

\* no Authorization header, one that is no bearer token, and bearer tokens:
\* UUIDs, handed out as a token or not
AuthHeaders ==
    {NoAuth, [kind |-> "other", token |-> 0]}
    \cup {[kind |-> "bearer", token |-> k] : k \in 1..MaxUuids}

PostContents ==
    {[text |-> "", len |-> 0],
     [text |-> "a", len |-> 1],
     [text |-> "a repeated 5000 times", len |-> 5000],
     [text |-> "a repeated 5001 times", len |-> 5001],
     [text |-> "e-acute repeated 2501 times", len |-> 5002],
     [text |-> "<script>x</script>hi", len |-> 20]}

PostBodies ==
    {InvalidJson, [kind |-> "json"], [kind |-> "json", content |-> [number |-> 7]]}
    \cup {[kind |-> "json", content |-> c] : c \in PostContents}

\* an identifier in a path or a body: empty, no UUID, or a UUID
Identifiers == {0, -1} \cup 1..MaxFollowUuids

TargetBodies ==
    {InvalidJson, [kind |-> "json"]}
    \cup {[kind |-> "json", target_user_id |-> k] : k \in Identifiers}

ProfileBodies ==
    {InvalidJson,
     [kind |-> "json"],
     [kind |-> "json", bio |-> <<"<", "b", ">", "h", "i">>],
     [kind |-> "json", bio |-> Repeat(<<"a">>, MAX_BIO_LENGTH + 1)],
     [kind |-> "json", new_password |-> Pw2],
     [kind |-> "json", new_password |-> <<"p">>, old_password |-> Pw1]}
    \cup {[kind |-> "json", new_password |-> Pw2, old_password |-> p] : p \in {Pw1, Pw2}}

ExpirationSettings == {None, Some([parses |-> TRUE, number |-> 0])}

InitBord ==
    /\ vocabData = BertVocab
    /\ VOCAB = NotSet
    /\ model = UnparsableModel
    /\ FORBIDDEN_WORDS = None
    /\ config = [enable_llm |-> FALSE, enable_tract |-> TRUE,
                 sentiment_score_threshold |-> 400000000]
    /\ IdleThreads
    /\ loadRuns = 0 /\ parseRuns = 0 /\ handled = 0
    /\ tokPc = "off" /\ tokText = <<>> /\ tokOut = <<>> /\ tokMask = <<>>
    /\ store = <<>>
    /\ now = 0
    /\ uuids = 0
    /\ BORD_TOKEN_EXPIRATION_HOURS \in ExpirationSettings
    /\ inflight = [r \in Instances |-> NotArrived]
    /\ call = NoCall
    /\ reply = NoReply
    /\ storeBefore = <<>>
    /\ issued = <<>>
    /\ lastFollow = <<>>

\* the requests of two clients, Ann and Bob: they register, log in, and send
\* every write request with every Authorization header
Credentials ==
    {InvalidJson, [kind |-> "json"]}
    \cup {[kind |-> "json", username |-> u, password |-> p] :
            u \in {Ann, Bob}, p \in {Pw1, Pw2}}

Registrations ==
    {[kind |-> "json", username |-> Ann, password |-> Pw1],
     [kind |-> "json", username |-> Bob, password |-> Pw2]}

PlainPost == [kind |-> "json", content |-> [text |-> "a", len |-> 1]]

OtherPost == [kind |-> "json", content |-> [text |-> "b", len |-> 1]]

BioUpdate == [kind |-> "json", bio |-> <<"h", "i">>]

FirstUser == [kind |-> "json", target_user_id |-> 1]

NextBord ==
    \/ \E body \in Registrations : uuids < MaxUuids /\ CreateUser(body)
    \/ \E body \in Credentials : uuids < MaxUuids /\ LoginUser(body)
    \/ \E auth \in AuthHeaders : uuids < MaxUuids /\ CreatePost(auth, PlainPost)
    \/ \E auth \in AuthHeaders, id \in 1..MaxUuids : EditPost(auth, id, OtherPost)
    \/ \E auth \in AuthHeaders, id \in 1..MaxUuids : DeletePost(auth, id)
    \/ \E auth \in AuthHeaders : Follow(auth, FirstUser)
    \/ \E auth \in AuthHeaders : Unfollow(auth, FirstUser)
    \/ \E auth \in AuthHeaders : uuids < MaxUuids /\ UpdateProfile(auth, BioUpdate)
    \/ Return
    \/ Tick

SpecBord == InitBord /\ [][NextBord]_vars

\* one client registers, logs in and posts every kind of body
NextPost ==
    \/ \E body \in Registrations : uuids < MaxUuids /\ CreateUser(body)
    \/ \E body \in Registrations : uuids < MaxUuids /\ LoginUser(body)
    \/ \E auth \in AuthHeaders, body \in PostBodies :
            uuids < MaxUuids /\ CreatePost(auth, body)
    \/ Return

SpecPost == InitBord /\ [][NextPost]_vars

\* three clients register; one of them, Ann, logs in and sends follow and
\* unfollow requests with every target
Cat == <<"c", "a", "t">>

Followers ==
    {[kind |-> "json", username |-> Ann, password |-> Pw1],
     [kind |-> "json", username |-> Bob, password |-> Pw2],
     [kind |-> "json", username |-> Cat, password |-> Pw1]}

FollowerTokens ==
    {NoAuth} \cup {[kind |-> "bearer", token |-> k] : k \in 1..MaxFollowUuids}

NextFollow ==
    \/ \E body \in Followers : uuids < MaxFollowUuids /\ CreateUser(body)
    \/ uuids < MaxFollowUuids
            /\ LoginUser([kind |-> "json", username |-> Ann, password |-> Pw1])
    \/ \E auth \in FollowerTokens, body \in TargetBodies : Follow(auth, body)
    \/ \E auth \in FollowerTokens, body \in TargetBodies : Unfollow(auth, body)
    \/ Return

InitFollow == InitBord /\ BORD_TOKEN_EXPIRATION_HOURS = None

SpecFollow == InitFollow /\ [][NextFollow]_vars

\* a client registers, logs in, posts, and edits posts with contents that are
\* new, that are stored already, and that are filtered to what is stored
HiPost == [kind |-> "json", content |-> [text |-> "hi", len |-> 2]]

ScriptPost == [kind |-> "json", content |-> [text |-> "<script>x</script>hi", len |-> 20]]

EditBodies == {OtherPost, HiPost, ScriptPost}

NextEdit ==
    \/ \E body \in Registrations : uuids < MaxUuids /\ CreateUser(body)
    \/ \E body \in Registrations : uuids < MaxUuids /\ LoginUser(body)
    \/ \E auth \in AuthHeaders : uuids < MaxUuids /\ CreatePost(auth, PlainPost)
    \/ \E auth \in AuthHeaders, id \in 1..MaxUuids, body \in EditBodies :
            EditPost(auth, id, body)
    \/ Return
    \/ Tick

SpecEdit == InitFollow /\ [][NextEdit]_vars

\* clients register, log in, post, follow the first user, and read their feed
NextFeed ==
    \/ \E body \in Registrations : uuids < MaxUuids /\ CreateUser(body)
    \/ \E body \in Registrations : uuids < MaxUuids /\ LoginUser(body)
    \/ \E auth \in AuthHeaders : uuids < MaxUuids /\ CreatePost(auth, PlainPost)
    \/ \E auth \in AuthHeaders : Follow(auth, FirstUser)
    \/ \E auth \in AuthHeaders : GetFeed(auth)
    \/ Return

SpecFeed == InitFollow /\ [][NextFeed]_vars

\* two clients register and log in; they change their passwords, giving the
\* right old password, a wrong one, or a new one that is too short
PasswordChanges ==
    {[kind |-> "json", new_password |-> Pw2, old_password |-> Pw1],
     [kind |-> "json", new_password |-> Pw1, old_password |-> Pw2],
     [kind |-> "json", new_password |-> <<"p">>, old_password |-> Pw1]}

SessionTokens ==
    {NoAuth} \cup {[kind |-> "bearer", token |-> k] : k \in 1..MaxSessionUuids}

NextSession ==
    \/ \E body \in Registrations : uuids < MaxSessionUuids /\ CreateUser(body)
    \/ \E body \in Registrations : uuids < MaxSessionUuids /\ LoginUser(body)
    \/ \E auth \in SessionTokens, body \in PasswordChanges :
            uuids < MaxSessionUuids /\ UpdateProfile(auth, body)
    \/ Return

SpecSession == InitFollow /\ [][NextSession]_vars

\* two clients register, log in, post, and edit and delete posts, their own
\* and the other's
NextOwner ==
    \/ \E body \in Registrations : uuids < MaxSessionUuids /\ CreateUser(body)
    \/ \E body \in Registrations : uuids < MaxSessionUuids /\ LoginUser(body)
    \/ \E auth \in SessionTokens : uuids < MaxSessionUuids /\ CreatePost(auth, PlainPost)
    \/ \E auth \in SessionTokens, id \in 1..MaxSessionUuids :
            EditPost(auth, id, OtherPost)
    \/ \E auth \in SessionTokens, id \in 1..MaxSessionUuids : DeletePost(auth, id)
    \/ Return

SpecOwner == InitFollow /\ [][NextOwner]_vars

\* one client registers, logs in, and creates and deletes posts as time passes
AnnOnly == [kind |-> "json", username |-> Ann, password |-> Pw1]

NextFeedList ==
    \/ uuids < MaxSessionUuids /\ CreateUser(AnnOnly)
    \/ uuids < MaxSessionUuids /\ LoginUser(AnnOnly)
    \/ \E auth \in SessionTokens : uuids < MaxSessionUuids /\ CreatePost(auth, PlainPost)
    \/ \E auth \in SessionTokens, id \in 1..MaxSessionUuids : DeletePost(auth, id)
    \/ Return
    \/ Tick

SpecFeedList == InitFollow /\ [][NextFeedList]_vars

-----------------------------------------------------------------------------
(* Claims about the handler *)

Count(seq, x) == Cardinality({i \in 1..Len(seq) : seq[i] = x})

Called(t, x) == Count(trace[t], x) > 0

\* the non-empty entries of FORBIDDEN_WORDS, trimmed and lower-cased
ConfiguredWords ==
    IF FORBIDDEN_WORDS.some
    THEN LET words == Split(FORBIDDEN_WORDS.value, ",")
         IN  {to_lowercase(trim(words[k])) : k \in 1..Len(words)} \ {<<>>}
    ELSE {}

\* thread t holds a request the policy applies to
Moderated(t) ==
    /\ req[t] # NoRequest
    /\ is_moderated(req[t].method, req[t].path)
    /\ req[t].body.kind = "string"

\* the content of t's request contains a configured forbidden word
GateHit(t) ==
    /\ Moderated(t)
    /\ \E w \in ConfiguredWords : Contains(to_lowercase(req[t].body.content), w)

IsBlockResponse(r) ==
    r.status = 422 /\ r.from = "filter" /\ r.error = "content_policy_violation"

\* the classification of t's request failed: Tokenizer::load returned an
\* error, or the model did not parse, did not run, or gave no two f32 logits
ClassificationFailed(t) ==
    \/ Called(t, "load_failed")
    \/ Called(t, "model_parse") /\ model \in ErrorModels

\* C1: when classification fails on the local-model path, the result is the
\* score 0.5 with is_hate_speech false, the classifier was invoked once, and
\* the request is forwarded upstream, not rejected
C1_FailOpenNoRetry ==
    \A t \in Threads :
        ClassificationFailed(t) =>
            /\ cls[t].sentiment_score = 500000000
            /\ ~cls[t].is_hate_speech
            /\ Count(trace[t], "classify_with_tract") = 1
            /\ Count(trace[t], "Tokenizer::load") = 1
            /\ Count(trace[t], "model_parse") <= 1
            /\ pc[t] \in {"forward", "done"}
            /\ ~IsBlockResponse(resp[t])
            /\ pc[t] = "done" => Len(sent[t]) = 1

C1_Witness ==
    \E t, u \in Threads :
        /\ pc[t] = "done" /\ Called(t, "load_failed") /\ Len(sent[t]) = 1
        /\ pc[u] = "done" /\ Called(u, "model_parse") /\ Len(sent[u]) = 1
        /\ model.kind = "one_logit"

\* C2: a request whose content contains a forbidden word gets the block
\* response with no classifier invoked and the configuration not consulted,
\* whatever enable_llm and enable_tract are
C2_ForbiddenShortCircuit ==
    \A t \in Threads :
        GateHit(t) =>
            /\ pc[t] = "done"
            /\ IsBlockResponse(resp[t])
            /\ ~Called(t, "classify_with_llm")
            /\ ~Called(t, "classify_with_tract")
            /\ ~Called(t, "load_config")
            /\ cls[t] = NoClassification

C2_Witness ==
    \E t \in Threads :
        /\ GateHit(t) /\ pc[t] = "done"
        /\ config.enable_llm /\ config.enable_tract

\* the content policy decided Block for t's request
PolicyBlocks(t) == GateHit(t) \/ cls[t].is_hate_speech

\* C3: a blocked request is answered 422 with error content_policy_violation
\* and is never sent upstream; a request that is not blocked is sent upstream
\* exactly once
C3_BlockedNeverForwarded ==
    \A t \in Threads :
        /\ Len(sent[t]) <= 1
        /\ PolicyBlocks(t) => sent[t] = <<>>
        /\ pc[t] = "done" =>
              IF PolicyBlocks(t)
              THEN IsBlockResponse(resp[t])
              ELSE Len(sent[t]) = 1 /\ ~IsBlockResponse(resp[t])

C3_Witness ==
    \E t \in Threads :
        /\ pc[t] = "done" /\ cls[t].is_hate_speech
        /\ IsBlockResponse(resp[t]) /\ sent[t] = <<>>

\* t's request went through the sentiment gate and a classification came back
Classified(t) == cls[t] # NoClassification

IsConstantModel(neg, pos) == model = [kind |-> "constant", neg |-> neg, pos |-> pos]

C6_LoadOnce == loadRuns <= 1

\* C7: no caller of Tokenizer::load receives an error: each call returns the
\* one initialised vocabulary
C7_LoadSameResult ==
    \A t \in Threads : ~Called(t, "load_failed")

\* C8: the model bytes are parsed at most once in the process, however many
\* calls of classify_sentiment it makes
C8_ParseOnce == parseRuns <= 1

-----------------------------------------------------------------------------
(* Claims about the tokenizer *)

\* C9: tokenize returns exactly 128 token IDs for every text and vocabulary
C9_LengthInvariant == tokPc = "done" => Len(tokOut) = MAX_LEN

C9_Witness ==
    /\ tokPc = "done"
    /\ Cardinality({i \in 1..Len(tokText) : tokText[i] = "."}) > MAX_LEN
    /\ Len(tokOut) = MAX_LEN

\* the words and punctuation marks of a lower-cased text s, by where they start
IsWordChar(s, i) == ~IsWhitespace(s[i]) /\ ~is_punctuation(s[i])

TokenStarts(s) ==
    {i \in 1..Len(s) :
        \/ is_punctuation(s[i])
        \/ IsWordChar(s, i) /\ (i = 1 \/ ~IsWordChar(s, i - 1))}

TokenAt(s, i) ==
    IF is_punctuation(s[i]) THEN <<s[i]>>
    ELSE LET stops == {j \in i..Len(s) : ~IsWordChar(s, j)}
             e == IF stops = {} THEN Len(s) + 1
                  ELSE CHOOSE j \in stops : \A k \in stops : j <= k
         IN  SubSeq(s, i, e - 1)

HasMarkers(vocab) == CLS \in DOMAIN vocab /\ SEP \in DOMAIN vocab

PadId(vocab) == IF PAD \in DOMAIN vocab THEN vocab[PAD] ELSE 0

\* C10: the output is the first 128 elements of BEGIN_ID, the content-token
\* IDs, END_ID, then PAD_ID repeated: position 1 holds the begin marker, the
\* k-th word or punctuation mark of the text sits at position k + 1, the end
\* marker follows the last of them when there are at most 126, and every later
\* position holds the pad ID
C10_SequenceShape ==
    (tokPc = "done" /\ HasMarkers(VOCAB.vocab)) =>
        LET v == VOCAB.vocab
            s == to_lowercase(tokText)
            starts == TokenStarts(s)
            n == Cardinality(starts)
        IN  /\ Len(tokOut) = MAX_LEN
            /\ tokOut[1] = v[CLS]
            /\ \A i \in starts :
                  LET k == Cardinality({j \in starts : j <= i})
                  IN  k + 1 <= MAX_LEN => tokOut[k + 1] = get_token_id(v, TokenAt(s, i))
            /\ n <= MAX_LEN - 2 =>
                  /\ tokOut[n + 2] = v[SEP]
                  /\ \A i \in (n + 3)..MAX_LEN : tokOut[i] = PadId(v)
            /\ tokText = <<>> =>
                  tokOut = <<v[CLS], v[SEP]>> \o [i \in 1..(MAX_LEN - 2) |-> PadId(v)]

C10_Witness ==
    /\ tokPc = "done" /\ HasMarkers(VOCAB.vocab)
    /\ Cardinality(TokenStarts(to_lowercase(tokText))) = MAX_LEN - 2
    /\ tokOut[1] = VOCAB.vocab[CLS]
    /\ tokOut[MAX_LEN] = VOCAB.vocab[SEP]

\* C11: the attention mask is as long as the token sequence and is 0 exactly
\* at the positions holding the pad marker's ID, 1 at every other position,
\* for every vocabulary
C11_AttentionMask ==
    tokPc = "done" =>
        /\ Len(tokMask) = Len(tokOut)
        /\ \A i \in 1..Len(tokOut) :
              tokMask[i] = IF tokOut[i] = PadId(VOCAB.vocab) THEN 0 ELSE 1

-----------------------------------------------------------------------------
(* Claims about what the handler sends and answers *)

\* C13: the request sent upstream for a request that is not blocked has the
\* incoming method, path and query, body bytes and every incoming header, and
\* exactly one header more, x-origin: wasm-filter
C13_ForwardedUnchanged ==
    \A t \in Threads :
        sent[t] # <<>> =>
            LET out == sent[t][1]
            IN  /\ out.method = req[t].method
                /\ out.path = req[t].path
                /\ out.body = req[t].body
                /\ req[t].headers \subseteq out.headers
                /\ out.headers \ req[t].headers = {X_ORIGIN}

\* the gate that stopped t's request
BlockedBy(t) ==
    IF trace[t] = <<"contains_forbidden_content">> THEN "forbidden_words"
    ELSE IF Called(t, "classify_with_llm") THEN "llm"
    ELSE "tract"

\* C14: the message of a 422 block response is a fixed string per gate: the
\* same for every content, every forbidden word that matched, every score and
\* every reasoning of the classifier
C14_FixedBlockMessage ==
    \A t \in Threads :
        IsBlockResponse(resp[t]) =>
            resp[t] =
                [status |-> 422, from |-> "filter",
                 error |-> "content_policy_violation",
                 message |->
                    CASE BlockedBy(t) = "forbidden_words" ->
                            "Spam detected - this content won't be posted."
                      [] BlockedBy(t) = "llm" -> "Content contains hate speech"
                      [] BlockedBy(t) = "tract" -> "Content sentiment too negative"]

C14_Witness ==
    \E t \in Threads :
        /\ IsBlockResponse(resp[t])
        /\ BlockedBy(t) = "tract"
        /\ cls[t].sentiment_score = 0
        /\ req[t].body.content = <<"h", "i">>

\* gate 1 stopped t's request
Gate1Blocked(t) ==
    /\ IsBlockResponse(resp[t])
    /\ trace[t] = <<"contains_forbidden_content">>
    /\ sent[t] = <<>>

\* FORBIDDEN_WORDS is absent, empty, or made of empty entries only
NoWordsConfigured ==
    \/ ~FORBIDDEN_WORDS.some
    \/ \A i \in 1..Len(FORBIDDEN_WORDS.value) :
            FORBIDDEN_WORDS.value[i] = "," \/ IsWhitespace(FORBIDDEN_WORDS.value[i])

\* C15: gate 1 blocks a content exactly when some comma-separated entry of
\* FORBIDDEN_WORDS, trimmed and lower-cased, is non-empty and occurs in the
\* lower-cased content; with no words configured it blocks nothing
C15_GateSemantics ==
    \A t \in Threads :
        (Moderated(t) /\ pc[t] # "idle") =>
            /\ Gate1Blocked(t) <=> GateHit(t)
            /\ NoWordsConfigured => ~Gate1Blocked(t)

C15_Witness ==
    \E t \in Threads :
        /\ Moderated(t) /\ Gate1Blocked(t)
        /\ req[t].body.content = <<"x">>
        /\ FORBIDDEN_WORDS.some

-----------------------------------------------------------------------------
(* Claims about the scorer *)

One == 1000000000

\* the difference of the logits of the model, positive minus negative
LogitDifference == model.pos - model.neg

-----------------------------------------------------------------------------
(* create_user, one store operation at a time *)

\* Several create_user requests run at the same time, each in an instance of
\* the component; the store makes each get and each set atomic and nothing
\* more, so the requests interleave between any two store operations.

UsersOf(s) == {k \in DOMAIN s : k[1] = "user"}

\* users.rs:47-66: the body is parsed and validated, which fails as create_user
\* fails on an empty store, and users_list is read
CreateUserArrive(r, body) ==
    /\ inflight[r].pc = "idle"
    /\ LET invalid == create_user(<<>>, 0, body).reply
           name == sanitize_text(Field(body, "username"))
       IN  inflight' = [inflight EXCEPT ![r] =
               IF invalid.status # 201
               THEN [@ EXCEPT !.pc = "done", !.body = body, !.reply = invalid]
               ELSE [@ EXCEPT !.pc = "scan", !.body = body, !.i = 1,
                              !.existing_users = get_list(store, USERS_LIST_KEY),
                              !.taken = \E k \in UsersOf(store) :
                                            store[k].username = name]]
    /\ UNCHANGED <<store, now, uuids, BORD_TOKEN_EXPIRATION_HOURS, call, reply,
                   storeBefore, issued, lastFollow, filterVars>>

\* users.rs:67-75: one turn of the loop over existing_users reads one user
CreateUserScan(r) ==
    /\ inflight[r].pc = "scan"
    /\ inflight[r].i <= Len(inflight[r].existing_users)
    /\ LET u == get_json(store, user_key(inflight[r].existing_users[inflight[r].i]))
           name == sanitize_text(Field(inflight[r].body, "username"))
       IN  inflight' = [inflight EXCEPT ![r] =
               IF u.some /\ u.value.username = name
               THEN [@ EXCEPT !.pc = "done", !.reply = Conflict("Username exists")]
               ELSE [@ EXCEPT !.i = @ + 1]]
    /\ UNCHANGED <<store, now, uuids, BORD_TOKEN_EXPIRATION_HOURS, call, reply,
                   storeBefore, issued, lastFollow, filterVars>>

\* users.rs:76-86: the loop is over, the user gets its id and is stored
CreateUserSetUser(r) ==
    /\ inflight[r].pc = "scan"
    /\ inflight[r].i > Len(inflight[r].existing_users)
    /\ LET user == [id |-> Fresh,
                    username |-> sanitize_text(Field(inflight[r].body, "username")),
                    password |-> hash_password(Field(inflight[r].body, "password")),
                    bio |-> None]
       IN  /\ store' = set_json(store, user_key(Fresh), user)
           /\ inflight' = [inflight EXCEPT ![r] =
                   [@ EXCEPT !.pc = "set_list", !.id = Fresh,
                             !.reply = [status |-> 201,
                                        body |-> [kind |-> "user", user |-> user]]]]
    /\ uuids' = uuids + 1
    /\ UNCHANGED <<now, BORD_TOKEN_EXPIRATION_HOURS, call, reply,
                   storeBefore, issued, lastFollow, filterVars>>

\* users.rs:88-97: users_list as it was read, with the id pushed, is written
\* and the request is answered
CreateUserSetList(r) ==
    /\ inflight[r].pc = "set_list"
    /\ store' = set_json(store, USERS_LIST_KEY,
                         Append(inflight[r].existing_users, inflight[r].id))
    /\ inflight' = [inflight EXCEPT ![r] = [@ EXCEPT !.pc = "done"]]
    /\ UNCHANGED <<now, uuids, BORD_TOKEN_EXPIRATION_HOURS, call, reply,
                   storeBefore, issued, lastFollow, filterVars>>

\* clients register Ann and Bob, and send a body that is no JSON
ConcurrentBodies == Registrations \cup {InvalidJson}

NextRegister ==
    \/ \E r \in Instances, body \in ConcurrentBodies : CreateUserArrive(r, body)
    \/ \E r \in Instances : CreateUserScan(r)
    \/ \E r \in Instances : CreateUserSetUser(r)
    \/ \E r \in Instances : CreateUserSetList(r)

SpecRegister == InitFollow /\ [][NextRegister]_vars

-----------------------------------------------------------------------------
(* Claims about the backend *)

WriteOps ==
    {"create_post", "edit_post", "delete_post", "handle_follow", "handle_unfollow",
     "update_profile"}

\* the request in hand carries a bearer token that the store held when the
\* request arrived, issued no more whole hours ago than tokens live, to a user
\* the store held
HoldsValidToken ==
    /\ call.auth.kind = "bearer"
    /\ <<"token", call.auth.token>> \in DOMAIN storeBefore
    /\ LET record == storeBefore[<<"token", call.auth.token>>]
           lifetime == IF BORD_TOKEN_EXPIRATION_HOURS.some
                       THEN BORD_TOKEN_EXPIRATION_HOURS.value.number
                       ELSE DEFAULT_EXPIRATION_HOURS
       IN  /\ (call.at - record.created_at.at) \div 2 <= lifetime
           /\ <<"user", record.user_id>> \in DOMAIN storeBefore

TokenExpired ==
    /\ call.auth.kind = "bearer"
    /\ <<"token", call.auth.token>> \in DOMAIN storeBefore
    /\ ~HoldsValidToken

GivenLength ==
    IF "content" \in DOMAIN call.body /\ "len" \in DOMAIN call.body.content
    THEN call.body.content.len
    ELSE 0

PostsOf(s) == {k \in DOMAIN s : k[1] = "post"}

FeedOf(s) == IF <<"feed", 0>> \in DOMAIN s THEN s[<<"feed", 0>>] ELSE <<>>

\* C18: an authenticated create_post whose content is empty, missing, no
\* string or longer than MAX_POST_LENGTH = 5000 bytes is answered with 400 and
\* stores nothing; a content of 1 to 5000 bytes is answered with 201, and its
\* post is stored and put first in the feed
C18_ContentValidation ==
    (call.op = "create_post" /\ HoldsValidToken /\ call.body.kind = "json") =>
        IF 1 <= GivenLength /\ GivenLength <= 5000
        THEN /\ reply.status = 201
             /\ \E k \in PostsOf(store) \ PostsOf(storeBefore) :
                    /\ PostsOf(store) = PostsOf(storeBefore) \cup {k}
                    /\ FeedOf(store) = <<k[2]>> \o FeedOf(storeBefore)
        ELSE /\ reply.status = 400
             /\ store = storeBefore

C18_Witness ==
    /\ call.op = "create_post"
    /\ HoldsValidToken
    /\ GivenLength = 5001
    /\ reply.status = 400
    /\ PostsOf(store) = {}

\* the body presents a username and a password that a user record of the
\* store carries
Matches(s, body) ==
    /\ "username" \in DOMAIN body
    /\ "password" \in DOMAIN body
    /\ \E k \in DOMAIN s :
          /\ k[1] = "user"
          /\ s[k].username = body.username
          /\ s[k].password = [argon2 |-> body.password]

TokensOf(s) == {k \in DOMAIN s : k[1] = "token"}

\* C19: login is answered 200 exactly when the username and password presented
\* match a stored user, and then with a token no record carried before, held
\* for that user; credentials matching no stored user are answered 401 and
\* leave the store, token records and tokens_list included, as it was; a post
\* created with a token a login returned carries the id of the user whose
\* username was presented at that login
C19_LoginCorrect ==
    /\ call.op = "login_user" =>
          /\ reply.status = 200 <=> Matches(storeBefore, call.body)
          /\ reply.status = 200 =>
                /\ \A k \in DOMAIN storeBefore : k[2] # reply.body.token
                /\ TokensOf(store) = TokensOf(storeBefore) \cup {<<"token", reply.body.token>>}
                /\ store[<<"token", reply.body.token>>].user_id = reply.body.user_id
                /\ <<"user", reply.body.user_id>> \in DOMAIN storeBefore
                /\ storeBefore[<<"user", reply.body.user_id>>].username = call.body.username
                /\ storeBefore[<<"user", reply.body.user_id>>].password
                        = [argon2 |-> call.body.password]
          /\ (call.body.kind = "json" /\ ~Matches(storeBefore, call.body)) =>
                /\ reply.status = 401
                /\ store = storeBefore
    /\ (call.op = "create_post" /\ reply.status = 201 /\ call.auth.token \in DOMAIN issued) =>
          /\ <<"user", reply.body.post.user_id>> \in DOMAIN store
          /\ store[<<"user", reply.body.post.user_id>>].username
                  = issued[call.auth.token].username
          /\ store[<<"post", reply.body.post.id>>].user_id = issued[call.auth.token].user_id

C19_Witness ==
    /\ call.op = "create_post"
    /\ reply.status = 201
    /\ call.auth.token \in DOMAIN issued
    /\ issued[call.auth.token].username = Bob
    /\ store[<<"post", reply.body.post.id>>].user_id = issued[call.auth.token].user_id

\* followings(a): the list GET /followings/a returns
FollowingsOf(s, a) ==
    IF <<"followings", a>> \in DOMAIN s THEN s[<<"followings", a>>] ELSE <<>>

In(list, x) == \E i \in DOMAIN list : list[i] = x

Without(list, x) == SelectSeq(list, LAMBDA y : y # x)

\* the user ids the clients were given at login
Clients == {issued[k].user_id : k \in DOMAIN issued}

FollowAnswered(op) ==
    /\ call.op = op
    /\ reply.status = 200
    /\ call.auth.token \in DOMAIN issued

\* following b and then unfollowing b, from the store as it is, with the token
\* auth
FollowThenUnfollow(auth, b) ==
    LET body == [kind |-> "json", target_user_id |-> b]
        first == handle_follow(store, now, BORD_TOKEN_EXPIRATION_HOURS, auth, body)
    IN  [first |-> first.reply.status,
         second |-> handle_unfollow(first.store, now, BORD_TOKEN_EXPIRATION_HOURS,
                                    auth, body)]

\* C20: b is in followings(a) exactly when the last follow or unfollow request
\* of a about b that was answered 200 was a follow; no id is twice in a list
\* and a is never in its own; a follow appends b unless it is there, an
\* unfollow removes b and nothing else, and a follow then an unfollow of a b
\* that was not followed leaves followings(a) as it was
C20_FollowUnfollow ==
    /\ \A a \in Clients :
          LET list == FollowingsOf(store, a)
          IN  /\ \A b \in 1..(MaxFollowUuids + 1) :
                    In(list, b) <=> /\ <<a, b>> \in DOMAIN lastFollow
                                    /\ lastFollow[<<a, b>>] = "handle_follow"
              /\ \A i, j \in DOMAIN list : list[i] = list[j] => i = j
              /\ ~In(list, a)
    /\ FollowAnswered("handle_follow") =>
          LET a == issued[call.auth.token].user_id
              b == call.body.target_user_id
              before == FollowingsOf(storeBefore, a)
          IN  FollowingsOf(store, a) = IF In(before, b) THEN before ELSE Append(before, b)
    /\ FollowAnswered("handle_unfollow") =>
          LET a == issued[call.auth.token].user_id
              b == call.body.target_user_id
          IN  FollowingsOf(store, a) = Without(FollowingsOf(storeBefore, a), b)
    /\ \A k \in DOMAIN issued, b \in 1..(MaxFollowUuids + 1) :
          LET a == issued[k].user_id
              both == FollowThenUnfollow([kind |-> "bearer", token |-> k], b)
          IN  (both.first = 200 /\ both.second.reply.status = 200
               /\ ~In(FollowingsOf(store, a), b)) =>
                  FollowingsOf(both.second.store, a) = FollowingsOf(store, a)

\* Ann, who follows two users, has unfollowed the second: the first is left
C20_Witness ==
    /\ FollowAnswered("handle_unfollow")
    /\ LET a == issued[call.auth.token].user_id
           b == call.body.target_user_id
       IN  /\ Len(FollowingsOf(storeBefore, a)) = 2
           /\ FollowingsOf(storeBefore, a)[2] = b
           /\ FollowingsOf(store, a) = <<FollowingsOf(storeBefore, a)[1]>>
           /\ lastFollow[<<a, b>>] = "handle_unfollow"

\* the request in hand names a post the store held, written by the user its
\* token was issued to
OwnPost ==
    /\ HoldsValidToken
    /\ <<"post", call.id>> \in DOMAIN storeBefore
    /\ storeBefore[<<"post", call.id>>].user_id
          = storeBefore[<<"token", call.auth.token>>].user_id

\* what is stored of a content: the text without its script element
StoredForm(c) == IF c.text = "<script>x</script>hi" THEN [text |-> "hi", len |-> 2] ELSE c

\* C21: an edit_post by the owner with a content of 1 to 5000 bytes is answered
\* 200; when the filtered content differs from the stored one the record gets
\* that content and updated_at, and its id, user_id, created_at, the feed and
\* every other record stay as they were; when it equals the stored one
\* nothing is written and updated_at keeps its value
C21_EditEffect ==
    (call.op = "edit_post" /\ OwnPost /\ call.body.kind = "json"
     /\ 1 <= GivenLength /\ GivenLength <= 5000) =>
        LET key == <<"post", call.id>>
            old == storeBefore[key]
            new == store[key]
            given == StoredForm(call.body.content)
        IN  /\ reply.status = 200
            /\ DOMAIN store = DOMAIN storeBefore
            /\ \A k \in DOMAIN store \ {key} : store[k] = storeBefore[k]
            /\ IF given = old.content
               THEN store = storeBefore
               ELSE /\ new.content = given
                    /\ new.updated_at = Some([rfc3339 |-> TRUE, at |-> call.at])
                    /\ new.id = old.id
                    /\ new.user_id = old.user_id
                    /\ new.created_at = old.created_at

\* a second edit, half an hour after the first, whose content is filtered to
\* what the first stored
C21_Witness ==
    /\ call.op = "edit_post"
    /\ OwnPost
    /\ reply.status = 200
    /\ call.body = ScriptPost
    /\ call.at = 1
    /\ store = storeBefore
    /\ store[<<"post", call.id>>].updated_at = Some([rfc3339 |-> TRUE, at |-> 0])

\* the user the token of the request in hand was issued to
Requester == storeBefore[<<"token", call.auth.token>>].user_id

\* C22: the posts get_feed returns are exactly the stored posts written by the
\* requester or by a user in the requester's followings list
C22_FeedContents ==
    (call.op = "get_feed" /\ HoldsValidToken) =>
        /\ reply.status = 200
        /\ {reply.body.posts[i] : i \in DOMAIN reply.body.posts}
             = {store[k] : k \in {p \in PostsOf(store) :
                                    \/ store[p].user_id = Requester
                                    \/ In(FollowingsOf(store, Requester),
                                          store[p].user_id)}}

\* the store s holds the token k, issued to a user it holds no more whole
\* hours before t than tokens live
ValidIn(s, k, t) ==
    /\ <<"token", k>> \in DOMAIN s
    /\ <<"user", s[<<"token", k>>].user_id>> \in DOMAIN s
    /\ (t - s[<<"token", k>>].created_at.at) \div 2
          <= (IF BORD_TOKEN_EXPIRATION_HOURS.some
              THEN BORD_TOKEN_EXPIRATION_HOURS.value.number
              ELSE DEFAULT_EXPIRATION_HOURS)

\* the tokens the store s holds for the user u
TokensFor(s, u) == {k[2] : k \in {x \in TokensOf(s) : s[x].user_id = u}}

PasswordChanged ==
    /\ call.op = "update_profile"
    /\ HoldsValidToken
    /\ "new_password" \in DOMAIN call.body
    /\ reply.status = 200

PasswordChangeFailed ==
    /\ call.op = "update_profile"
    /\ "new_password" \in DOMAIN call.body
    /\ reply.status # 200

\* C23: after an update_profile that changed the password of user u, no token
\* the store held for u is valid, the one token held for u now is new, valid
\* and the one the response carries, and every token of another user is as
\* valid as before; a password change that failed leaves every token as it was
C23_PasswordChangeRevokes ==
    /\ PasswordChanged =>
          /\ \A k \in TokensFor(storeBefore, Requester) : ~ValidIn(store, k, call.at)
          /\ reply.body.token.some
          /\ TokensFor(store, Requester) = {reply.body.token.value}
          /\ \A k \in DOMAIN storeBefore : k[2] # reply.body.token.value
          /\ ValidIn(store, reply.body.token.value, call.at)
          /\ \A k \in TokensOf(storeBefore) :
                storeBefore[k].user_id # Requester =>
                    /\ k \in TokensOf(store)
                    /\ store[k] = storeBefore[k]
                    /\ ValidIn(storeBefore, k[2], call.at) => ValidIn(store, k[2], call.at)
          /\ store[<<"user", Requester>>].password = [argon2 |-> call.body.new_password]
    /\ PasswordChangeFailed =>
          /\ TokensOf(store) = TokensOf(storeBefore)
          /\ \A k \in TokensOf(store) :
                /\ store[k] = storeBefore[k]
                /\ ValidIn(storeBefore, k[2], call.at) => ValidIn(store, k[2], call.at)

\* a user changes the password while another user holds a token
C23_Witness ==
    /\ PasswordChanged
    /\ TokensFor(storeBefore, Requester) # {}
    /\ \E k \in TokensOf(store) :
          /\ store[k].user_id # Requester
          /\ ValidIn(store, k[2], call.at)

-----------------------------------------------------------------------------
(* Claims about the choice of the classifier *)

\* t's request passed gate 1 and handle went on
PastGate1(t) == Moderated(t) /\ ~GateHit(t) /\ pc[t] # "idle"

LocalModelTouched(t) ==
    \/ Called(t, "classify_with_tract")
    \/ Called(t, "Tokenizer::load")
    \/ Called(t, "model_parse")
    \/ pc[t] \in {"tract", "set", "infer"}

\* the call of the LLM for t's request failed on the network, or its answer
\* could not be parsed
LlmFailed(t) ==
    /\ Called(t, "classify_with_llm")
    /\ \/ cls[t].reasoning = "llm_unavailable"
       \/ Called(t, "failed")

Allowed(t) ==
    /\ pc[t] \in {"forward", "done"}
    /\ ~IsBlockResponse(resp[t])
    /\ pc[t] = "done" => (Len(sent[t]) = 1 /\ resp[t].from # "filter")

\* C24: with enable_llm the local model is never invoked for a request,
\* whatever enable_tract is, and a request whose LLM call failed or whose
\* LLM answer could not be parsed is forwarded; with enable_llm and
\* enable_tract both false no classifier is invoked and every request that
\* passes gate 1 is forwarded
C24_LlmExclusiveFailOpen ==
    \A t \in Threads :
        PastGate1(t) =>
            /\ config.enable_llm =>
                  /\ ~LocalModelTouched(t)
                  /\ pc[t] = "llm" \/ Count(trace[t], "classify_with_llm") = 1
                  /\ LlmFailed(t) => Allowed(t)
            /\ (~config.enable_llm /\ ~config.enable_tract) =>
                  /\ ~LocalModelTouched(t)
                  /\ ~Called(t, "classify_with_llm")
                  /\ cls[t] = NoClassification
                  /\ Allowed(t)

\* the answer of the LLM could not be parsed, the local model is enabled too,
\* and the request went upstream
C24_Witness ==
    \E t \in Threads :
        /\ PastGate1(t)
        /\ config.enable_llm /\ config.enable_tract
        /\ Called(t, "failed")
        /\ pc[t] = "done"
        /\ Len(sent[t]) = 1

\* C25: two requests with the same content get the same decision, blocked or
\* forwarded, under every interleaving of the threads that handle them, the
\* race on the first use of the vocabulary included
C25_SameDecision ==
    \A t, u \in Threads :
        (/\ pc[t] = "done" /\ pc[u] = "done"
         /\ Moderated(t) /\ Moderated(u)
         /\ req[t].body.content = req[u].body.content) =>
            (IsBlockResponse(resp[t]) <=> IsBlockResponse(resp[u]))

-----------------------------------------------------------------------------
(* Claims about the scope of the policy *)

HasPrefix(path, n, prefix) == Len(path) >= n /\ SubSeq(path, 1, n) = prefix

\* t's request is a POST under /posts or a PUT under /posts/ whose body is
\* JSON with a string field content
InScope(t) ==
    /\ \/ req[t].method = "POST"
          /\ HasPrefix(req[t].path, 6, <<"/", "p", "o", "s", "t", "s">>)
       \/ req[t].method = "PUT"
          /\ HasPrefix(req[t].path, 7, <<"/", "p", "o", "s", "t", "s", "/">>)
    /\ req[t].body.kind = "string"

\* C26: the filter rejects a request only if it is a POST under /posts or a
\* PUT under /posts/ with a JSON body whose content field is a string; every
\* other request is forwarded upstream and no policy gate is evaluated for it
C26_ModerationScope ==
    \A t \in Threads :
        pc[t] # "idle" =>
            /\ IsBlockResponse(resp[t]) => InScope(t)
            /\ ~InScope(t) =>
                  /\ trace[t] = <<>>
                  /\ cls[t] = NoClassification
                  /\ Allowed(t)

\* a PUT of /posts with a forbidden word in its content went upstream
C26_Witness ==
    \E t \in Threads :
        /\ req[t].method = "PUT"
        /\ req[t].path = <<"/", "p", "o", "s", "t", "s">>
        /\ req[t].body.kind = "string"
        /\ req[t].body.content = <<"S", "P", "A", "M", "!">>
        /\ ConfiguredWords # {}
        /\ pc[t] = "done"
        /\ Len(sent[t]) = 1

TokenAge == call.at - storeBefore[<<"token", call.auth.token>>].created_at.at

\* the hours a token lives
Lifetime ==
    IF BORD_TOKEN_EXPIRATION_HOURS.some THEN BORD_TOKEN_EXPIRATION_HOURS.value.number
    ELSE DEFAULT_EXPIRATION_HOURS

\* C28: a token of an existing user is rejected when its age is greater than
\* token_expiration_hours hours and accepted when its age is at most that
C28_TokenExpiry ==
    (/\ call.op \in WriteOps
     /\ call.auth.kind = "bearer"
     /\ <<"token", call.auth.token>> \in DOMAIN storeBefore
     /\ <<"user", Requester>> \in DOMAIN storeBefore) =>
        (reply.status = 401 <=> TokenAge > 2 * Lifetime)

\* what the post records of the store s hold, per key
PostRecords(s) == [k \in PostsOf(s) |-> s[k]]

\* C29: an edit_post or delete_post of a post by a user who is not its author
\* is answered 403, and one of a post id the store does not hold is answered
\* 404, both leaving the store as it was; a post's content changes, or the
\* post disappears, only in a request authenticated as its author
C29_OwnerOnly ==
    /\ (call.op \in {"edit_post", "delete_post"} /\ HoldsValidToken /\ call.id > 0) =>
          IF <<"post", call.id>> \notin DOMAIN storeBefore
          THEN reply.status = 404 /\ store = storeBefore
          ELSE storeBefore[<<"post", call.id>>].user_id # Requester =>
                  (reply.status = 403 /\ store = storeBefore)
    /\ call.op # "none" =>
          \A k \in PostsOf(storeBefore) :
              (k \notin DOMAIN store \/ store[k].content # storeBefore[k].content) =>
                  /\ HoldsValidToken
                  /\ Requester = storeBefore[k].user_id
                  /\ call.op \in {"edit_post", "delete_post"}
                  /\ call.id = k[2]

\* a user with a valid token tries to delete another user's post
C29_Witness ==
    /\ call.op = "delete_post"
    /\ HoldsValidToken
    /\ <<"post", call.id>> \in DOMAIN storeBefore
    /\ storeBefore[<<"post", call.id>>].user_id # Requester
    /\ reply.status = 403
    /\ PostRecords(store) = PostRecords(storeBefore)

\* C30: under any interleaving of concurrent create_user requests no two
\* stored users share a username; users_list holds the id of every stored
\* user, once no request stands between storing its user and writing the
\* list; and a create_user whose username was taken when it arrived is
\* answered 409 and stores nothing
C30_UniqueUsernames ==
    /\ \A k1, k2 \in UsersOf(store) :
          k1 # k2 => store[k1].username # store[k2].username
    /\ (\A r \in Instances : inflight[r].pc # "set_list") =>
          \A k \in UsersOf(store) : contains(get_list(store, USERS_LIST_KEY), k[2])
    /\ \A r \in Instances :
          (inflight[r].pc = "done" /\ inflight[r].taken) =>
              (inflight[r].reply.status = 409 /\ inflight[r].id = 0)

====
